---- MODULE Spec2Model ----
(***************************************************************************)
(* Model of jenkins_cli/test_collateral.py: the local cache subsystem      *)
(* (job cache record, branch cache record) and the branch history built    *)
(* on it.                                                                  *)
(*                                                                         *)
(* Strings are sequences of one-character strings, so that lower() and     *)
(* equality are computed character by character.  Python values and JSON   *)
(* documents are tagged trees [t, v]; json.dump / json.load convert        *)
(* between the two.  A file is absent, unreadable, unparseable text, or    *)
(* holds a JSON document.                                                  *)
(***************************************************************************)
EXTENDS Integers, Sequences, FiniteSets, TLC

VARIABLES branchFile, jobsFile, now, call, run, stored, nextFresh, extras, ticks, writer,
          proc

vars == <<branchFile, jobsFile, now, call, run, stored, nextFresh, extras, ticks, writer,
          proc>>

(***************************************************************************)
(* Bounds of the model.                                                    *)
(***************************************************************************)
\* names b01, b02, ... introduced in order by Touch
MaxFresh == 52
\* calls other than a touch of the next fresh name (re-touch, case variant,
\* dev, list)
MaxExtra == 2
\* such calls are tried on histories this short, or full / one below full
SmallLen == 2
\* clock advances per behaviour
MaxTicks == 3

(***************************************************************************)
(* Program constants.                                                      *)
(***************************************************************************)
CACHE_DURATION_MINUTES == 1440
BRANCH_LIMIT == 50

(***************************************************************************)
(* Strings.                                                                *)
(***************************************************************************)
UpperChars == <<"A","B","C","D","E","F","G","H","I","J","K","L","M",
                "N","O","P","Q","R","S","T","U","V","W","X","Y","Z">>
LowerChars == <<"a","b","c","d","e","f","g","h","i","j","k","l","m",
                "n","o","p","q","r","s","t","u","v","w","x","y","z">>
Digits == <<"0","1","2","3","4","5","6","7","8","9">>

\* str.lower() on one character
LowerChar(c) ==
    IF \E i \in 1..26 : UpperChars[i] = c
    THEN LowerChars[CHOOSE i \in 1..26 : UpperChars[i] = c]
    ELSE c

\* str.upper() on one character
UpperChar(c) ==
    IF \E i \in 1..26 : LowerChars[i] = c
    THEN UpperChars[CHOOSE i \in 1..26 : LowerChars[i] = c]
    ELSE c

\* str.lower()
Lower(s) == [i \in 1..Len(s) |-> LowerChar(s[i])]

DEV == <<"d","e","v">>

(***************************************************************************)
(* Python values and JSON documents.                                       *)
(***************************************************************************)
PyNone == [t |-> "NoneType", v |-> 0]
PyInt(n) == [t |-> "int", v |-> n]
PyStr(s) == [t |-> "str", v |-> s]
PyList(items) == [t |-> "list", v |-> items]
PyDict(d) == [t |-> "dict", v |-> d]

JNull == [t |-> "null", v |-> 0]
JNumber(n) == [t |-> "number", v |-> n]
JString(s) == [t |-> "string", v |-> s]
JArray(items) == [t |-> "array", v |-> items]
JObject(m) == [t |-> "object", v |-> m]

RECURSIVE JsonEncode(_)
\* json.dump: the document a Python value is written as
JsonEncode(p) ==
    CASE p.t = "NoneType" -> JNull
      [] p.t = "int" -> JNumber(p.v)
      [] p.t = "str" -> JString(p.v)
      [] p.t = "list" -> JArray([i \in 1..Len(p.v) |-> JsonEncode(p.v[i])])
      [] p.t = "dict" -> JObject([k \in DOMAIN p.v |-> JsonEncode(p.v[k])])

RECURSIVE JsonDecode(_)
\* json.load: the Python value a document is read as
JsonDecode(j) ==
    CASE j.t = "null" -> PyNone
      [] j.t = "number" -> PyInt(j.v)
      [] j.t = "string" -> PyStr(j.v)
      [] j.t = "array" -> PyList([i \in 1..Len(j.v) |-> JsonDecode(j.v[i])])
      [] j.t = "object" -> PyDict([k \in DOMAIN j.v |-> JsonDecode(j.v[k])])

(***************************************************************************)
(* Files.                                                                  *)
(***************************************************************************)
Absent == [kind |-> "absent", doc |-> JNull]
\* exists, but open(..., 'r') raises PermissionError
Unreadable == [kind |-> "unreadable", doc |-> JNull]
\* exists and holds text that is not a JSON document
Empty == [kind |-> "empty", doc |-> JNull]
Partial == [kind |-> "partial", doc |-> JNull]
Garbage == [kind |-> "garbage", doc |-> JNull]
JsonFile(doc) == [kind |-> "json", doc |-> doc]

NotJson(f) == f.kind \in {"empty", "partial", "garbage"}

\* what a call returns or raises
Return(v) == [exc |-> "none", ret |-> v]
Raise(e) == [exc |-> e, ret |-> PyNone]

\* with open(path, 'w') as f: json.dump(data, f), under storage outcome io
WriteJson(file, data, io) ==
    CASE io = "ok" -> [file |-> JsonFile(JsonEncode(data)), exc |-> "none"]
      [] io = "open_fails" -> [file |-> file, exc |-> "OSError"]
      [] io = "dump_fails_midway" -> [file |-> Partial, exc |-> "OSError"]

(***************************************************************************)
(* Branch cache record.                                                    *)
(***************************************************************************)
\* load_branch_cache()
load_branch_cache(file) ==
    IF file.kind = "absent" THEN Return(PyList(<<>>))
    ELSE IF file.kind = "unreadable" THEN Raise("PermissionError")
    ELSE IF NotJson(file) THEN Return(PyList(<<>>))
    ELSE LET cache_data == JsonDecode(file.doc) IN
         IF cache_data.t # "dict" THEN Raise("AttributeError")
         ELSE IF "branches" \in DOMAIN cache_data.v
              THEN Return(cache_data.v["branches"])
              ELSE Return(PyList(<<>>))

\* save_branch_cache writing under a key that load_branch_cache does not read
save_branch_cache_WrongKey(file, branches, io) ==
    LET w == WriteJson(file, PyDict([branch |-> branches]), io) IN
    [file |-> w.file, exc |-> "none", save |-> IF w.exc = "none" THEN "ok" ELSE "failed"]

\* save_branch_cache(branches): every Exception of the write is swallowed
save_branch_cache(file, branches, io) ==
    LET w == WriteJson(file, PyDict([branches |-> branches]), io) IN
    [file |-> w.file, exc |-> "none", save |-> IF w.exc = "none" THEN "ok" ELSE "failed"]

\* x in list
ListContains(items, x) == \E i \in 1..Len(items) : items[i] = x

\* list.remove(x): the first occurrence goes
ListRemove(items, x) ==
    LET k == CHOOSE i \in 1..Len(items) :
                 items[i] = x /\ \A j \in 1..(i - 1) : items[j] # x
    IN [i \in 1..(Len(items) - 1) |-> IF i < k THEN items[i] ELSE items[i + 1]]

\* a slice that keeps the last n instead of the first n
ListHead_KeepsLast(items, n) ==
    IF Len(items) <= n THEN items ELSE SubSeq(items, Len(items) - n + 1, Len(items))

\* list[:n]
ListHead(items, n) == IF Len(items) <= n THEN items ELSE SubSeq(items, 1, n)

\* the comparison without lower()
IsDev_CaseSensitive(name) == name = DEV

\* branch_name.lower() == 'dev'
IsDev(name) == Lower(name) = DEV

\* the update without the slice to 50
MoveToFront_NoTruncate(items, x) ==
    LET removed == IF ListContains(items, x) THEN ListRemove(items, x) ELSE items
    IN <<x>> \o removed

\* the update removing the entry that equals x ignoring case
MoveToFront_IgnoreCase(items, x) ==
    LET same(y) == Lower(y.v) = Lower(x.v)
        removed == SelectSeq(items, LAMBDA y : ~same(y))
    IN ListHead(<<x>> \o removed, BRANCH_LIMIT)

\* the update without the removal of the old entry
MoveToFront_NoRemove(items, x) == ListHead(<<x>> \o items, BRANCH_LIMIT)

\* lines 151-159 of add_branch_to_cache on a list
MoveToFront(items, x) ==
    LET removed == IF ListContains(items, x) THEN ListRemove(items, x) ELSE items
    IN ListHead(<<x>> \o removed, BRANCH_LIMIT)

\* add_branch_to_cache(branch_name)
add_branch_to_cache(file, name, io) ==
    IF IsDev(name) THEN [file |-> file, exc |-> "none", save |-> "none"]
    ELSE LET l == load_branch_cache(file) IN
         IF l.exc # "none" THEN [file |-> file, exc |-> l.exc, save |-> "none"]
         ELSE IF l.ret.t \in {"NoneType", "int"}
              THEN [file |-> file, exc |-> "TypeError", save |-> "none"]
         ELSE IF l.ret.t # "list"
              THEN [file |-> file, exc |-> "AttributeError", save |-> "none"]
         ELSE save_branch_cache(file, PyList(MoveToFront(l.ret.v, PyStr(name))), io)

\* get_cached_branches()
get_cached_branches(file) == load_branch_cache(file)

(***************************************************************************)
(* Job cache record.  The clock counts seconds.                            *)
(***************************************************************************)
RECURSIVE ToIso(_)
\* datetime.isoformat(): the instant written out in decimal digits
ToIso(n) ==
    IF n < 10 THEN <<Digits[n + 1]>>
    ELSE ToIso(n \div 10) \o <<Digits[(n % 10) + 1]>>

IsDigit(c) == \E i \in 1..10 : Digits[i] = c
DigitValue(c) == (CHOOSE i \in 1..10 : Digits[i] = c) - 1

\* does datetime.fromisoformat(s) accept s (else ValueError)
IsIso(s) == Len(s) > 0 /\ \A i \in 1..Len(s) : IsDigit(s[i])

RECURSIVE FromIso(_)
\* datetime.fromisoformat(s) for an accepted s
FromIso(s) ==
    IF Len(s) = 1 THEN DigitValue(s[1])
    ELSE 10 * FromIso(SubSeq(s, 1, Len(s) - 1)) + DigitValue(s[Len(s)])

\* timedelta(minutes=CACHE_DURATION_MINUTES)
CacheDuration == CACHE_DURATION_MINUTES * 60

\* the comparison with >= in place of >
Expired_AtDuration(clock, cache_time) == clock - cache_time >= CacheDuration

\* datetime.now() - cache_time > timedelta(minutes=CACHE_DURATION_MINUTES)
Expired(clock, cache_time) == clock - cache_time > CacheDuration

\* load_jobs_cache()
load_jobs_cache(file, clock) ==
    IF file.kind = "absent" THEN Return(PyNone)
    ELSE IF file.kind = "unreadable" THEN Raise("PermissionError")
    ELSE IF NotJson(file) THEN Return(PyNone)
    ELSE LET cache_data == JsonDecode(file.doc) IN
         IF cache_data.t # "dict" THEN Raise("TypeError")
         ELSE IF "timestamp" \notin DOMAIN cache_data.v THEN Return(PyNone)
         ELSE IF cache_data.v["timestamp"].t # "str" THEN Raise("TypeError")
         ELSE IF ~IsIso(cache_data.v["timestamp"].v) THEN Return(PyNone)
         ELSE IF Expired(clock, FromIso(cache_data.v["timestamp"].v)) THEN Return(PyNone)
         ELSE IF "jobs" \notin DOMAIN cache_data.v THEN Return(PyNone)
         ELSE Return(cache_data.v["jobs"])

\* save_jobs_cache without the except clause
save_jobs_cache_Raises(file, jobs, clock, io) ==
    LET cache_data == PyDict([timestamp |-> PyStr(ToIso(clock)), jobs |-> jobs])
        w == WriteJson(file, cache_data, io)
    IN [file |-> w.file, exc |-> w.exc, save |-> IF w.exc = "none" THEN "ok" ELSE "failed"]

\* save_jobs_cache(jobs): every Exception of the write is swallowed
save_jobs_cache(file, jobs, clock, io) ==
    LET cache_data == PyDict([timestamp |-> PyStr(ToIso(clock)), jobs |-> jobs])
        w == WriteJson(file, cache_data, io)
    IN [file |-> w.file, exc |-> "none", save |-> IF w.exc = "none" THEN "ok" ELSE "failed"]

\* bool(value) of a Jenkins answer
Truthy(p) ==
    CASE p.t = "NoneType" -> FALSE
      [] p.t = "dict" -> DOMAIN p.v # {}
      [] p.t = "list" -> Len(p.v) > 0
      [] OTHER -> TRUE

\* get_jenkins_client(): exits when the settings are missing or the
\* connection test fails
get_jenkins_client(env) ==
    IF ~env.configured THEN "SystemExit"
    ELSE IF ~env.reachable THEN "SystemExit"
    ELSE "none"

\* get_jobs that stores the empty list when the fetch fails
get_jobs_SavesOnFailure(file, clock, force_refresh, env, io) ==
    LET cached == load_jobs_cache(file, clock)
        miss == [file |-> file, save |-> "none", contacted |-> TRUE,
                 exc |-> "none", ret |-> PyList(<<>>)]
        s == save_jobs_cache(file, PyList(<<>>), clock, io)
    IN
    IF ~force_refresh /\ cached.exc # "none"
    THEN [miss EXCEPT !.exc = cached.exc, !.ret = PyNone, !.contacted = FALSE]
    ELSE IF ~force_refresh /\ cached.ret # PyNone
    THEN [miss EXCEPT !.ret = cached.ret, !.contacted = FALSE]
    ELSE IF get_jenkins_client(env) # "none"
    THEN [miss EXCEPT !.exc = get_jenkins_client(env), !.ret = PyNone,
                      !.contacted = env.configured]
    ELSE [miss EXCEPT !.file = s.file, !.save = s.save]

\* get_jobs(force_refresh); env is what the configuration and Jenkins answer
get_jobs(file, clock, force_refresh, env, io) ==
    LET cached == load_jobs_cache(file, clock)
        miss == [file |-> file, save |-> "none", contacted |-> TRUE,
                 exc |-> "none", ret |-> PyList(<<>>)]
    IN
    IF ~force_refresh /\ cached.exc # "none"
    THEN [miss EXCEPT !.exc = cached.exc, !.ret = PyNone, !.contacted = FALSE]
    ELSE IF ~force_refresh /\ cached.ret # PyNone
    THEN [miss EXCEPT !.ret = cached.ret, !.contacted = FALSE]
    ELSE IF get_jenkins_client(env) # "none"
    THEN [miss EXCEPT !.exc = get_jenkins_client(env), !.ret = PyNone,
                      !.contacted = env.configured]
    ELSE IF env.folder_raises THEN miss
    ELSE IF ~Truthy(env.folder_info) THEN miss
    ELSE LET jobs == IF "jobs" \in DOMAIN env.folder_info.v
                     THEN env.folder_info.v["jobs"]
                     ELSE PyList(<<>>)
             s == save_jobs_cache(file, jobs, clock, io)
         IN IF s.exc # "none"
            THEN [miss EXCEPT !.file = s.file, !.save = s.save]
            ELSE [miss EXCEPT !.file = s.file, !.save = s.save, !.ret = jobs]

(***************************************************************************)
(* Inputs.                                                                 *)
(***************************************************************************)
\* the i-th fresh branch name: b01, b02, ...
NameOf(i) == <<"b", Digits[(i \div 10) + 1], Digits[(i % 10) + 1]>>

DevNames == { <<"d","e","v">>, <<"D","e","v">>, <<"D","E","V">>, <<"d","E","v">> }

Develop == <<"d","e","v","e","l","o","p">>

\* the same name in upper case
CaseVariant(name) == [i \in 1..Len(name) |-> UpperChar(name[i])]

\* list(): the persisted branch history as a sequence of names
HistoryNames(file) ==
    LET l == get_cached_branches(file) IN
    IF l.exc = "none" /\ l.ret.t = "list"
    THEN [i \in 1..Len(l.ret.v) |-> l.ret.v[i].v]
    ELSE <<>>

History == HistoryNames(branchFile)

\* names other than the next fresh one that a touch is tried with
ExtraNames(h) ==
    IF Len(h) = 0 THEN {Develop}
    ELSE {h[1], h[Len(h)], CaseVariant(h[Len(h)]), Develop}

ExtraAllowed(h) ==
    /\ extras < MaxExtra
    /\ (Len(h) <= SmallLen \/ Len(h) >= BRANCH_LIMIT - 1)

JobA == PyDict([name |-> PyStr(<<"a","-","b","u","i","l","d">>), color |-> PyStr(<<"b","l","u","e">>)])
JobB == PyDict([name |-> PyStr(<<"b","-","d","e","p","l","o","y">>), color |-> PyStr(<<"r","e","d">>)])

JobLists == { PyList(<<>>), PyList(<<JobA>>), PyList(<<JobB, JobA>>) }

BranchLists == { PyList(<<>>), PyList(<<PyStr(NameOf(1))>>),
                 PyList(<<PyStr(Develop), PyStr(NameOf(1))>>) }

\* what the configuration and Jenkins may answer to get_jobs
Envs ==
    LET env(c, r, x, f) ==
            [configured |-> c, reachable |-> r, folder_raises |-> x, folder_info |-> f]
    IN { env(FALSE, TRUE, FALSE, PyNone),
         env(TRUE, FALSE, FALSE, PyNone),
         env(TRUE, TRUE, TRUE, PyNone),
         env(TRUE, TRUE, FALSE, PyNone),
         env(TRUE, TRUE, FALSE, PyDict(<<>>)),
         env(TRUE, TRUE, FALSE, PyDict([name |-> PyStr(<<"t","c">>)])),
         env(TRUE, TRUE, FALSE, PyDict([jobs |-> PyList(<<>>)])),
         env(TRUE, TRUE, FALSE, PyDict([jobs |-> PyList(<<JobA>>)])) }

NominalIO == {"ok"}
FaultyIO == {"ok", "open_fails", "dump_fails_midway"}

TickSteps == {1, CacheDuration}

(***************************************************************************)
(* State.                                                                  *)
(*   branchFile, jobsFile  the two cache files                             *)
(*   now                   the clock, in seconds                           *)
(*   call                  the last call made and what it did, with the    *)
(*                         call before it                                  *)
(*   run                   names touched since the history was last empty, *)
(*                         while they are pairwise distinct and not dev    *)
(*   stored                what the last completed save_jobs_cache wrote   *)
(*   nextFresh, extras, ticks   how much of the input budget is used       *)
(*   writer                another process in the middle of a save         *)
(*   proc                  the frame of the resolver or polling loop that  *)
(*                         ran last: its arguments, position, locals and   *)
(*                         result; none after any other command            *)
(***************************************************************************)
NoCall ==
    [op |-> "none", arg |-> PyNone, pre |-> PyNone, ret |-> PyNone,
     exc |-> "none", save |-> "none", contacted |-> FALSE,
     prev |-> [op |-> "none", arg |-> PyNone, save |-> "none"]]

Called(op, arg, pre, ret, exc, save, contacted) ==
    [op |-> op, arg |-> arg, pre |-> pre, ret |-> ret, exc |-> exc, save |-> save,
     contacted |-> contacted,
     prev |-> [op |-> call.op, arg |-> call.arg, save |-> call.save]]

EmptyRun == [ok |-> TRUE, names |-> <<>>]
BrokenRun == [ok |-> FALSE, names |-> <<>>]
NoWriter == [pc |-> "idle", target |-> "none", old |-> Absent, data |-> PyNone]
NoProc == [op |-> "none", arg |-> PyNone, pc |-> "none", loc |-> PyNone, ret |-> PyNone]

\* the branch cache record holding no branch
EmptyBranchFile == JsonFile(JsonEncode(PyDict([branches |-> PyList(<<>>)])))

Init ==
    /\ branchFile \in {Absent, EmptyBranchFile}
    /\ jobsFile = Absent
    /\ now = 0
    /\ call = NoCall
    /\ run = EmptyRun
    /\ stored = [valid |-> FALSE, at |-> 0, jobs |-> PyNone]
    /\ nextFresh = 1
    /\ extras = 0
    /\ ticks = 0
    /\ writer = NoWriter
    /\ proc = NoProc

\* j build --branch ...: add_branch_to_cache(name)
Touch(name, io) ==
    LET r == add_branch_to_cache(branchFile, name, io)
        h == History
        l == load_branch_cache(branchFile)
    IN
    /\ \/ nextFresh <= MaxFresh /\ name = NameOf(nextFresh)
       \/ ExtraAllowed(h) /\ name \in DevNames \cup ExtraNames(h)
    /\ branchFile' = r.file
    /\ call' = Called("touch", PyStr(name), l.ret, PyNone, r.exc, r.save, FALSE)
    /\ run' = IF run.ok /\ r.save = "ok" /\ ~ListContains(run.names, name)
              THEN [run EXCEPT !.names = Append(@, name)]
              ELSE BrokenRun
    /\ nextFresh' = IF name = NameOf(nextFresh) THEN nextFresh + 1 ELSE nextFresh
    /\ extras' = IF name # NameOf(nextFresh) THEN extras + 1 ELSE extras
    /\ UNCHANGED <<jobsFile, now, stored, ticks, writer>>
    /\ proc' = NoProc

\* j branches: get_cached_branches()
ListBranches ==
    LET l == get_cached_branches(branchFile) IN
    /\ ExtraAllowed(History)
    /\ call' = Called("list", PyNone, l.ret, l.ret, l.exc, "none", FALSE)
    /\ extras' = extras + 1
    /\ UNCHANGED <<branchFile, jobsFile, now, run, stored, nextFresh, ticks, writer>>
    /\ proc' = NoProc

\* j cache --clear-branches
ClearBranches ==
    /\ extras < MaxExtra
    /\ branchFile # Absent
    /\ branchFile' = Absent
    /\ call' = Called("clear_branches", PyNone, PyNone, PyNone, "none", "none", FALSE)
    /\ run' = EmptyRun
    /\ extras' = extras + 1
    /\ UNCHANGED <<jobsFile, now, stored, nextFresh, ticks, writer>>
    /\ proc' = NoProc

NextBranch ==
    \/ \E name \in DevNames \cup {NameOf(nextFresh)} \cup ExtraNames(History) :
           \E io \in NominalIO : Touch(name, io)
    \/ ListBranches

\* the branch history, with the storage working
Spec == Init /\ [][NextBranch]_vars

(***************************************************************************)
(* Branch history: C1 - C5.                                                *)
(***************************************************************************)
\* the names of a Python list of strings
PyNames(p) == [i \in 1..Len(p.v) |-> p.v[i].v]

EqualsDevIgnoringCase(name) ==
    /\ Len(name) = 3
    /\ name[1] \in {"d", "D"}
    /\ name[2] \in {"e", "E"}
    /\ name[3] \in {"v", "V"}

NoDuplicates(h) == \A i, j \in 1..Len(h) : i # j => h[i] # h[j]

Occurrences(h, x) == Cardinality({i \in 1..Len(h) : h[i] = x})

Without(h, x) == SelectSeq(h, LAMBDA y : y # x)

FirstN(h, n) == SubSeq(h, 1, IF Len(h) < n THEN Len(h) ELSE n)

Reversed(h) == [i \in 1..Len(h) |-> h[Len(h) + 1 - i]]

LastN(h, n) == SubSeq(h, (IF Len(h) < n THEN 0 ELSE Len(h) - n) + 1, Len(h))

\* C1: starting from an empty or absent branch cache, after any sequence of
\* touches the persisted history has at most 50 entries, no two equal
\* entries, and no entry equal to "dev" ignoring case.
C1_HistoryInvariants ==
    /\ Len(History) <= 50
    /\ NoDuplicates(History)
    /\ \A i \in 1..Len(History) : ~EqualsDevIgnoringCase(History[i])

\* a new name was touched on a full history
C1_Witness ==
    /\ call.op = "touch" /\ call.save = "ok"
    /\ Len(call.pre.v) = 50
    /\ ~ListContains(call.pre.v, call.arg)
    /\ Len(History) = 50

\* C2: touch(n) with n not "dev" leaves the history equal to the first 50
\* elements of [n] followed by the old history with n removed.
C2_TouchMovesToFront ==
    (call.op = "touch" /\ ~EqualsDevIgnoringCase(call.arg.v))
        => History = FirstN(<<call.arg.v>> \o Without(PyNames(call.pre), call.arg.v), 50)

\* the last name of a full history was touched again, beside a name that
\* differs from it only in case
C2_Witness ==
    /\ call.op = "touch"
    /\ Len(call.pre.v) = 50
    /\ call.pre.v[50] = call.arg
    /\ \E i \in 1..Len(History) :
           History[i] # call.arg.v /\ Lower(History[i]) = Lower(call.arg.v)

\* C3: touch with any casing of "dev" changes neither the branch cache file
\* nor list(), and writes nothing.
C3_TouchDevIsNoOp ==
    [][(call' # call /\ call'.op = "touch" /\ EqualsDevIgnoringCase(call'.arg.v))
          => /\ branchFile' = branchFile
             /\ HistoryNames(branchFile') = HistoryNames(branchFile)
             /\ call'.save = "none"
             /\ call'.exc = "none"]_vars

\* "Dev" or "DEV" was touched on a non-empty history
C3_Witness ==
    /\ call.op = "touch"
    /\ EqualsDevIgnoringCase(call.arg.v) /\ call.arg.v # DEV
    /\ Len(History) > 0

\* C4: touching n pairwise distinct names other than "dev", starting from an
\* empty history, leaves list() equal to the last min(n, 50) of them, most
\* recent first.
C4_MostRecentFirst ==
    run.ok => History = Reversed(LastN(run.names, 50))

\* 51 distinct names were touched: 50 remain and the first one is gone
C4_Witness ==
    /\ run.ok
    /\ Len(run.names) = 51
    /\ Len(History) = 50
    /\ \A i \in 1..Len(History) : History[i] # run.names[1]

\* the same name was touched twice in a row
TouchedAgain ==
    /\ call.op = "touch" /\ call.prev.op = "touch"
    /\ call.prev.arg = call.arg

\* C5 as stated: for every name x, touch(x) after touch(x) leaves the
\* history as the first touch left it, with x at the front exactly once.
C5_AsStated ==
    TouchedAgain =>
        /\ History = PyNames(call.pre)
        /\ Len(History) > 0 /\ History[1] = call.arg.v
        /\ Occurrences(History, call.arg.v) = 1

\* C5 amended: the second touch never changes the history; x is at the
\* front exactly once unless x is "dev" in some casing, which is not stored.
C5_TouchIdempotent ==
    TouchedAgain =>
        /\ History = PyNames(call.pre)
        /\ ~EqualsDevIgnoringCase(call.arg.v) =>
               /\ Len(History) > 0 /\ History[1] = call.arg.v
               /\ Occurrences(History, call.arg.v) = 1

\* a stored name was touched twice in a row on a history of several names
C5_Witness ==
    /\ TouchedAgain
    /\ ~EqualsDevIgnoringCase(call.arg.v)
    /\ Len(History) >= 2

(***************************************************************************)
(* The cache store: the two records read and written directly, the clock,  *)
(* and get_jobs on top of the job cache record.                            *)
(***************************************************************************)
Budget == extras < MaxExtra

\* the job cache record changed otherwise than by a completed save
NothingStored == [valid |-> FALSE, at |-> 0, jobs |-> PyNone]

StoredAfter(r, jobs) ==
    IF r.save = "ok" THEN [valid |-> TRUE, at |-> now, jobs |-> jobs]
    ELSE IF r.file = jobsFile THEN stored
    ELSE NothingStored

\* load_jobs_cache()
LoadJobs ==
    LET r == load_jobs_cache(jobsFile, now) IN
    /\ Budget
    /\ call' = Called("load_jobs", PyNone, PyNone, r.ret, r.exc, "none", FALSE)
    /\ extras' = extras + 1
    /\ UNCHANGED <<branchFile, jobsFile, now, run, stored, nextFresh, ticks, writer>>
    /\ proc' = NoProc

\* save_jobs_cache(jobs)
SaveJobs(jobs, io) ==
    LET r == save_jobs_cache(jobsFile, jobs, now, io) IN
    /\ Budget
    /\ jobsFile' = r.file
    /\ stored' = StoredAfter(r, jobs)
    /\ call' = Called("save_jobs", jobs, PyNone, PyNone, r.exc, r.save, FALSE)
    /\ extras' = extras + 1
    /\ UNCHANGED <<branchFile, now, run, nextFresh, ticks, writer>>
    /\ proc' = NoProc

\* get_jobs(force_refresh)
GetJobs(force_refresh, env, io) ==
    LET r == get_jobs(jobsFile, now, force_refresh, env, io) IN
    /\ Budget
    /\ jobsFile' = r.file
    /\ stored' = StoredAfter(r, r.ret)
    /\ call' = Called("get_jobs", env.folder_info, PyNone, r.ret, r.exc, r.save, r.contacted)
    /\ extras' = extras + 1
    /\ UNCHANGED <<branchFile, now, run, nextFresh, ticks, writer>>
    /\ proc' = NoProc

\* save_branch_cache(branches)
SaveBranch(branches, io) ==
    LET r == save_branch_cache(branchFile, branches, io) IN
    /\ Budget
    /\ branchFile' = r.file
    /\ call' = Called("save_branch", branches, PyNone, PyNone, r.exc, r.save, FALSE)
    /\ run' = BrokenRun
    /\ extras' = extras + 1
    /\ UNCHANGED <<jobsFile, now, stored, nextFresh, ticks, writer>>
    /\ proc' = NoProc

\* j cache --clear
ClearJobs ==
    /\ Budget
    /\ jobsFile # Absent
    /\ jobsFile' = Absent
    /\ stored' = NothingStored
    /\ call' = Called("clear_jobs", PyNone, PyNone, PyNone, "none", "none", FALSE)
    /\ extras' = extras + 1
    /\ UNCHANGED <<branchFile, now, run, nextFresh, ticks, writer>>
    /\ proc' = NoProc

\* time passes
Tick(d) ==
    /\ ticks < MaxTicks
    /\ now' = now + d
    /\ ticks' = ticks + 1
    /\ call' = Called("tick", PyInt(d), PyNone, PyNone, "none", "none", FALSE)
    /\ UNCHANGED <<branchFile, jobsFile, run, stored, nextFresh, extras, writer>>
    /\ proc' = NoProc

NextStore ==
    \/ LoadJobs
    \/ \E jobs \in JobLists, io \in NominalIO : SaveJobs(jobs, io)
    \/ ListBranches
    \/ \E branches \in BranchLists, io \in NominalIO : SaveBranch(branches, io)
    \/ ClearJobs
    \/ ClearBranches
    \/ \E d \in TickSteps : Tick(d)

\* the cache store, with the storage working
SpecStore == Init /\ [][NextStore]_vars

(***************************************************************************)
(* Cache store: C6, C7.                                                    *)
(***************************************************************************)
\* C6: load_jobs_cache returns the stored job list while the record is at
\* most 1440 minutes old, and None once it is older.
C6_JobCacheExpiresByAge ==
    (call.op = "load_jobs" /\ stored.valid) =>
        IF now - stored.at <= 1440 * 60
        THEN call.exc = "none" /\ call.ret = stored.jobs
        ELSE call.exc = "none" /\ call.ret = PyNone

\* a record exactly 1440 minutes old was read and served
C6_Witness ==
    /\ call.op = "load_jobs" /\ stored.valid
    /\ now - stored.at = 1440 * 60
    /\ call.ret = stored.jobs /\ call.ret # PyNone

\* a record one second older than 1440 minutes was read and not served
C6_ExpiredReached ==
    /\ call.op = "load_jobs" /\ stored.valid
    /\ now - stored.at = 1440 * 60 + 1
    /\ call.ret = PyNone

\* C7: a load right after a successful save returns the payload saved, for
\* the job cache record and for the branch cache record.
C7_RoundTrip ==
    /\ (call.op = "load_jobs" /\ call.prev.op = "save_jobs" /\ call.prev.save = "ok")
           => call.exc = "none" /\ call.ret = call.prev.arg
    /\ (call.op = "list" /\ call.prev.op = "save_branch" /\ call.prev.save = "ok")
           => call.exc = "none" /\ call.ret = call.prev.arg

\* the empty job list was saved and read back
C7_Witness ==
    /\ call.op = "load_jobs" /\ call.prev.op = "save_jobs" /\ call.prev.save = "ok"
    /\ call.prev.arg = PyList(<<>>)
    /\ call.ret = PyList(<<>>)

\* a branch sequence of two names was saved and read back
C7_BranchReached ==
    /\ call.op = "list" /\ call.prev.op = "save_branch" /\ call.prev.save = "ok"
    /\ Len(call.ret.v) = 2

(***************************************************************************)
(* The cache store with a storage that fails, records that were damaged or *)
(* written by something else, and a second process in the middle of a save.*)
(***************************************************************************)
JobsRecord(timestamp, jobs) ==
    JsonFile(JsonEncode(PyDict([timestamp |-> timestamp, jobs |-> jobs])))

\* the states the job cache file is found in
JobsFileStates ==
    { Absent, Unreadable, Empty, Garbage,
      JsonFile(JArray(<<>>)),
      JsonFile(JNull),
      JsonFile(JObject(<<>>)),
      JobsRecord(PyInt(0), PyList(<<JobA>>)),
      JobsRecord(PyNone, PyList(<<JobA>>)),
      JobsRecord(PyStr(<<"n","o","w">>), PyList(<<JobA>>)),
      JsonFile(JsonEncode(PyDict([timestamp |-> PyStr(ToIso(0))]))),
      JobsRecord(PyStr(ToIso(0)), PyList(<<JobA>>)) }

\* the states the branch cache file is found in
BranchFileStates ==
    { Absent, Unreadable, Empty, Garbage,
      JsonFile(JArray(<<>>)),
      JsonFile(JString(<<"b">>)),
      JsonFile(JObject(<<>>)),
      JsonFile(JsonEncode(PyDict([branches |-> PyNone]))),
      JsonFile(JsonEncode(PyDict([branches |-> PyList(<<PyStr(NameOf(1))>>)]))) }

InitFaults ==
    /\ \/ jobsFile \in JobsFileStates /\ branchFile = Absent
       \/ jobsFile = Absent /\ branchFile \in BranchFileStates
    /\ now = 0
    /\ call = NoCall
    /\ run = BrokenRun
    /\ stored = NothingStored
    /\ nextFresh = MaxFresh + 1
    /\ extras = 0
    /\ ticks = 0
    /\ writer = NoWriter
    /\ proc = NoProc

FileOf(target) == IF target = "jobs" THEN jobsFile ELSE branchFile

\* another j process reaches open(path, 'w') of a save: the file is truncated
WriterOpen(target, data) ==
    /\ Budget
    /\ writer.pc # "opened"
    /\ writer' = [pc |-> "opened", target |-> target, old |-> FileOf(target), data |-> data]
    /\ IF target = "jobs"
       THEN jobsFile' = Empty /\ stored' = NothingStored /\ UNCHANGED branchFile
       ELSE branchFile' = Empty /\ UNCHANGED <<jobsFile, stored>>
    /\ extras' = extras + 1
    /\ UNCHANGED <<now, call, run, nextFresh, ticks>>
    /\ proc' = NoProc

\* that process's json.dump and the close of the file
WriterClose(io) ==
    LET w == WriteJson(Empty, writer.data, io) IN
    /\ writer.pc = "opened"
    /\ io # "open_fails"
    /\ writer' = [writer EXCEPT !.pc = IF w.exc = "none" THEN "done" ELSE "failed"]
    /\ IF writer.target = "jobs"
       THEN /\ jobsFile' = w.file
            /\ stored' = NothingStored
            /\ UNCHANGED branchFile
       ELSE branchFile' = w.file /\ UNCHANGED <<jobsFile, stored>>
    /\ UNCHANGED <<now, call, run, nextFresh, extras, ticks>>
    /\ proc' = NoProc

\* the answers of Jenkins that take get_jobs to the save, and one that does not
FaultEnvs ==
    { env \in Envs :
        /\ env.configured /\ env.reachable
        /\ (env.folder_raises \/ Truthy(env.folder_info)) }

NextFaults ==
    \/ LoadJobs
    \/ ListBranches
    \/ \E f \in BOOLEAN, env \in FaultEnvs, io \in FaultyIO : GetJobs(f, env, io)
    \/ \E name \in ExtraNames(History), io \in FaultyIO : Touch(name, io)
    \/ WriterOpen("jobs", PyDict([timestamp |-> PyStr(ToIso(now)), jobs |-> PyList(<<JobB>>)]))
    \/ WriterOpen("branch", PyDict([branches |-> PyList(<<PyStr(NameOf(2))>>)]))
    \/ \E io \in FaultyIO : WriterClose(io)

\* the cache store and its callers, with faults
SpecFaults == InitFaults /\ [][NextFaults]_vars

(***************************************************************************)
(* Cache store with faults: C8, C9, C10.                                   *)
(***************************************************************************)
\* C8 as stated: whatever state the backing record is in, load_jobs_cache
\* and load_branch_cache return (None, the empty sequence) and never raise.
C8_AsStated ==
    /\ call.op = "load_jobs" =>
           /\ call.exc = "none"
           /\ (jobsFile.kind # "json" => call.ret = PyNone)
    /\ call.op = "list" =>
           /\ call.exc = "none"
           /\ (branchFile.kind # "json" => call.ret = PyList(<<>>))

\* C9 as stated: from the start of a save of a complete record on, whether
\* the write succeeds or fails part-way, the file read is never empty or
\* partially written.
C9_AsStated ==
    (writer.pc # "idle" /\ writer.old.kind \in {"absent", "json"})
        => FileOf(writer.target).kind \notin {"empty", "partial"}

\* C10: when the write of save_jobs_cache fails, get_jobs still returns the
\* job list it fetched; when the write of save_branch_cache fails,
\* add_branch_to_cache returns normally.
C10_WriteFailureSwallowed ==
    /\ (call.op = "get_jobs" /\ call.save = "failed") =>
           /\ call.exc = "none"
           /\ call.ret = IF "jobs" \in DOMAIN call.arg.v
                         THEN call.arg.v["jobs"]
                         ELSE PyList(<<>>)
    /\ (call.op = "touch" /\ call.save = "failed") => call.exc = "none"

\* a get_jobs that fetched a job and a touch, both with a failed write
C10_Witness ==
    /\ call.op = "touch" /\ call.save = "failed"
    /\ call.prev.op = "get_jobs" /\ call.prev.save = "failed"
    /\ call.prev.arg = PyDict([jobs |-> PyList(<<JobA>>)])

(***************************************************************************)
(* String operations of the resolvers.                                     *)
(***************************************************************************)
\* sub in s
PyIn(sub, s) ==
    \E i \in 0..(Len(s) - Len(sub)) : SubSeq(s, i + 1, i + Len(sub)) = sub

\* s.startswith(prefix)
StartsWith(s, prefix) ==
    Len(prefix) <= Len(s) /\ SubSeq(s, 1, Len(prefix)) = prefix

\* s.endswith(suffix)
EndsWith(s, suffix) ==
    Len(suffix) <= Len(s) /\ SubSeq(s, Len(s) - Len(suffix) + 1, Len(s)) = suffix

\* a minimum that keeps the last of the shortest
MinByLen_Last(items) ==
    items[CHOOSE i \in 1..Len(items) :
              /\ \A j \in 1..Len(items) : Len(items[i]) <= Len(items[j])
              /\ \A j \in (i + 1)..Len(items) : Len(items[j]) > Len(items[i])]

\* min(items, key=len): the first of the shortest
MinByLen(items) ==
    items[CHOOSE i \in 1..Len(items) :
              /\ \A j \in 1..Len(items) : Len(items[i]) <= Len(items[j])
              /\ \A j \in 1..(i - 1) : Len(items[j]) > Len(items[i])]

\* max(items, key=len): the first of the longest
MaxByLen(items) ==
    items[CHOOSE i \in 1..Len(items) :
              /\ \A j \in 1..Len(items) : Len(items[i]) >= Len(items[j])
              /\ \A j \in 1..(i - 1) : Len(items[j]) < Len(items[i])]

(***************************************************************************)
(* find_matching_service.                                                  *)
(***************************************************************************)
\* the resolver without the tier of the exact match
find_matching_service_NoExact(partial_name, available_services) ==
    IF Len(partial_name) = 0 \/ Len(available_services) = 0 THEN PyNone
    ELSE LET matches == SelectSeq(available_services,
                                  LAMBDA s : PyIn(Lower(partial_name), Lower(s)))
             starts == SelectSeq(matches,
                                 LAMBDA m : StartsWith(Lower(m), Lower(partial_name)))
         IN IF Len(matches) = 1 THEN PyStr(matches[1])
            ELSE IF Len(starts) > 0 THEN PyStr(starts[1])
            ELSE IF Len(matches) > 0 THEN PyStr(MinByLen(matches))
            ELSE PyNone

\* the resolver without the tier of the names that start with the partial name
find_matching_service_NoStartsWith(partial_name, available_services) ==
    IF Len(partial_name) = 0 \/ Len(available_services) = 0 THEN PyNone
    ELSE LET exact == SelectSeq(available_services,
                                LAMBDA s : Lower(s) = Lower(partial_name))
             matches == SelectSeq(available_services,
                                  LAMBDA s : PyIn(Lower(partial_name), Lower(s)))
         IN IF Len(exact) > 0 THEN PyStr(exact[1])
            ELSE IF Len(matches) = 1 THEN PyStr(matches[1])
            ELSE IF Len(matches) > 0 THEN PyStr(MinByLen(matches))
            ELSE PyNone

\* find_matching_service(partial_name, available_services)
find_matching_service(partial_name, available_services) ==
    IF Len(partial_name) = 0 \/ Len(available_services) = 0 THEN PyNone
    ELSE LET exact == SelectSeq(available_services,
                                LAMBDA s : Lower(s) = Lower(partial_name))
             matches == SelectSeq(available_services,
                                  LAMBDA s : PyIn(Lower(partial_name), Lower(s)))
             starts == SelectSeq(matches,
                                 LAMBDA m : StartsWith(Lower(m), Lower(partial_name)))
         IN IF Len(exact) > 0 THEN PyStr(exact[1])
            ELSE IF Len(matches) = 1 THEN PyStr(matches[1])
            ELSE IF Len(starts) > 0 THEN PyStr(starts[1])
            ELSE IF Len(matches) > 0 THEN PyStr(MinByLen(matches))
            ELSE PyNone


(***************************************************************************)
(* build: the choice of the job and the SERVICENAME taken from its name.   *)
(* A job is represented by its name, job['name'].                          *)
(***************************************************************************)
BUILD == <<"b","u","i","l","d">>
REPORT_SUFFIX == <<"-","r","e","p","o","r","t">>
JOB_PREFIX == <<"t","e","s","t","-","c","o","l","l","a","t","e","r","a","l","-">>
BUILD_SUFFIX == <<"-","b","u","i","l","d">>

\* the jobs that build searches: lines 748-751
build_jobs(jobs) ==
    SelectSeq(jobs, LAMBDA name :
        PyIn(BUILD, Lower(name)) /\ ~EndsWith(Lower(name), REPORT_SUFFIX))

\* the choice that prefers names starting with the partial name to names
\* starting with "test-collateral-" and the partial name
select_job_StartBeforePrefix(candidates, partial_service_name) ==
    LET search_name == Lower(partial_service_name)
        matching_jobs == SelectSeq(candidates, LAMBDA name : PyIn(search_name, Lower(name)))
        exact_matches == SelectSeq(matching_jobs, LAMBDA name : Lower(name) = search_name)
        prefix_matches == SelectSeq(matching_jobs, LAMBDA name :
                              StartsWith(Lower(name), JOB_PREFIX \o search_name))
        start_matches == SelectSeq(matching_jobs, LAMBDA name :
                             StartsWith(Lower(name), search_name))
        kept == IF Len(matching_jobs) > 1
                THEN IF Len(exact_matches) > 0 THEN exact_matches
                     ELSE IF Len(start_matches) > 0 THEN start_matches
                     ELSE IF Len(prefix_matches) > 0 THEN prefix_matches
                     ELSE matching_jobs
                ELSE matching_jobs
    IN IF Len(matching_jobs) = 0 THEN PyNone ELSE PyStr(kept[1])

\* lines 757-824 of build on the build jobs: the selected job, or None when
\* the command reports that no job matches
select_job(candidates, partial_service_name) ==
    LET search_name == Lower(partial_service_name)
        matching_jobs == SelectSeq(candidates, LAMBDA name : PyIn(search_name, Lower(name)))
        exact_matches == SelectSeq(matching_jobs, LAMBDA name : Lower(name) = search_name)
        prefix_matches == SelectSeq(matching_jobs, LAMBDA name :
                              StartsWith(Lower(name), JOB_PREFIX \o search_name))
        start_matches == SelectSeq(matching_jobs, LAMBDA name :
                             StartsWith(Lower(name), search_name))
        kept == IF Len(matching_jobs) > 1
                THEN IF Len(exact_matches) > 0 THEN exact_matches
                     ELSE IF Len(prefix_matches) > 0 THEN prefix_matches
                     ELSE IF Len(start_matches) > 0 THEN start_matches
                     ELSE matching_jobs
                ELSE matching_jobs
    IN IF Len(matching_jobs) = 0 THEN PyNone ELSE PyStr(kept[1])

\* lines 748-824 of build: None when there is no build job or none matches
select_build_job(jobs, partial_service_name) ==
    IF Len(build_jobs(jobs)) = 0 THEN PyNone
    ELSE select_job(build_jobs(jobs), partial_service_name)

\* lines 1029-1060 of job_params: the first build job containing the partial
\* name
select_params_job(jobs, partial_service_name) ==
    LET search_name == Lower(partial_service_name)
        matching_jobs == SelectSeq(build_jobs(jobs),
                                   LAMBDA name : PyIn(search_name, Lower(name)))
    IN IF Len(build_jobs(jobs)) = 0 \/ Len(matching_jobs) = 0 THEN PyNone
       ELSE PyStr(matching_jobs[1])

\* lines 1183-1226 of status, and the same lines 1323-1366 of console, on all
\* the jobs
select_status_job(jobs, partial_service_name) ==
    LET search_name == Lower(partial_service_name)
        matching_jobs == SelectSeq(jobs, LAMBDA name : PyIn(search_name, Lower(name)))
        exact_matches == SelectSeq(matching_jobs, LAMBDA name : Lower(name) = search_name)
        start_matches == SelectSeq(matching_jobs, LAMBDA name :
                             StartsWith(Lower(name), search_name))
        kept == IF Len(matching_jobs) > 1
                THEN IF Len(exact_matches) > 0 THEN exact_matches
                     ELSE IF Len(start_matches) > 0 THEN start_matches
                     ELSE matching_jobs
                ELSE matching_jobs
    IN IF Len(matching_jobs) = 0 THEN PyNone ELSE PyStr(kept[1])

\* s.replace(old, new), old not empty
RECURSIVE Replace(_, _, _)
Replace(s, old, new) ==
    IF Len(s) < Len(old) THEN s
    ELSE IF StartsWith(s, old)
         THEN new \o Replace(SubSeq(s, Len(old) + 1, Len(s)), old, new)
         ELSE <<s[1]>> \o Replace(Tail(s), old, new)

\* the extraction taking the first catalog entry that occurs in the job name
extract_service_FirstMatch(build_job_name, available_services) ==
    LET matched_services ==
            SelectSeq(available_services, LAMBDA s : PyIn(s, build_job_name))
    IN IF Len(matched_services) > 0 THEN matched_services[1]
       ELSE IF StartsWith(build_job_name, JOB_PREFIX)
            THEN Replace(Replace(build_job_name, JOB_PREFIX, <<>>), BUILD_SUFFIX, <<>>)
            ELSE build_job_name

\* lines 833-849 of build: the SERVICENAME for the selected job
extract_service(build_job_name, available_services) ==
    LET matched_services ==
            SelectSeq(available_services, LAMBDA s : PyIn(s, build_job_name))
    IN IF Len(matched_services) > 0 THEN MaxByLen(matched_services)
       ELSE IF StartsWith(build_job_name, JOB_PREFIX)
            THEN Replace(Replace(build_job_name, JOB_PREFIX, <<>>), BUILD_SUFFIX, <<>>)
            ELSE build_job_name


(***************************************************************************)
(* find_matching_branch and the branches that git lists.                   *)
(***************************************************************************)
\* str.strip(), the white space being the blank
Strip(s) ==
    LET I == { i \in 1..Len(s) : s[i] # " " } IN
    IF I = {} THEN <<>>
    ELSE SubSeq(s, CHOOSE i \in I : \A j \in I : i <= j, CHOOSE i \in I : \A j \in I : i >= j)

REMOTE_PREFIX == <<"r","e","m","o","t","e","s","/","o","r","i","g","i","n","/">>
HEAD_SUFFIX == <<"/","H","E","A","D">>
DEFAULT_BRANCHES ==
    << DEV, <<"m","a","i","n">>, <<"m","a","s","t","e","r">>, Develop, <<"r","e","l","e","a","s","e">> >>

\* lines 299-303: a line of git branch -a without the mark of the current
\* branch and the name of the remote
CleanBranch(line) ==
    LET stripped == Strip(line)
        unmarked == IF StartsWith(stripped, <<"*">>) THEN Strip(Tail(stripped))
                    ELSE stripped
    IN IF StartsWith(unmarked, REMOTE_PREFIX)
       THEN Strip(SubSeq(unmarked, Len(REMOTE_PREFIX) + 1, Len(unmarked)))
       ELSE unmarked

\* lines 296-305: the loop over the lines of the output
RECURSIVE ParseBranches(_, _)
ParseBranches(lines, branches) ==
    IF Len(lines) = 0 THEN branches
    ELSE LET branch == CleanBranch(Head(lines)) IN
         ParseBranches(Tail(lines),
                       IF /\ Len(branch) > 0
                          /\ ~ListContains(branches, branch)
                          /\ ~EndsWith(branch, HEAD_SUFFIX)
                       THEN Append(branches, branch)
                       ELSE branches)

\* get_available_branches(): git.outcome is "ok" for return code 0, "nonzero"
\* for any other, "timeout" for TimeoutExpired, "missing" for FileNotFoundError
get_available_branches(git) ==
    IF git.outcome = "ok" /\ Len(ParseBranches(git.stdout, <<>>)) > 0
    THEN ParseBranches(git.stdout, <<>>)
    ELSE DEFAULT_BRANCHES

\* the tier of the cached branches ending with the shortest match
match_cached_Shortest(cached_branches, partial_name) ==
    LET exact == SelectSeq(cached_branches, LAMBDA b : Lower(b) = Lower(partial_name))
        matches == SelectSeq(cached_branches,
                             LAMBDA b : PyIn(Lower(partial_name), Lower(b)))
        starts == SelectSeq(matches, LAMBDA m : StartsWith(Lower(m), Lower(partial_name)))
    IN IF Len(exact) > 0 THEN PyStr(exact[1])
       ELSE IF Len(matches) = 1 THEN PyStr(matches[1])
       ELSE IF Len(starts) > 0 THEN PyStr(starts[1])
       ELSE IF Len(matches) > 0 THEN PyStr(MinByLen(matches))
       ELSE PyNone

\* lines 325-347 of find_matching_branch: None when the function goes on to the
\* branches of git
match_cached(cached_branches, partial_name) ==
    LET exact == SelectSeq(cached_branches, LAMBDA b : Lower(b) = Lower(partial_name))
        matches == SelectSeq(cached_branches,
                             LAMBDA b : PyIn(Lower(partial_name), Lower(b)))
        starts == SelectSeq(matches, LAMBDA m : StartsWith(Lower(m), Lower(partial_name)))
    IN IF Len(exact) > 0 THEN PyStr(exact[1])
       ELSE IF Len(matches) = 1 THEN PyStr(matches[1])
       ELSE IF Len(starts) > 0 THEN PyStr(starts[1])
       ELSE IF Len(matches) > 0 THEN PyStr(matches[1])
       ELSE PyNone

\* lines 352-377 of find_matching_branch
match_available(available_branches, partial_name) ==
    LET exact == SelectSeq(available_branches, LAMBDA b : Lower(b) = Lower(partial_name))
        matches == SelectSeq(available_branches,
                             LAMBDA b : PyIn(Lower(partial_name), Lower(b)))
        starts == SelectSeq(matches, LAMBDA m : StartsWith(Lower(m), Lower(partial_name)))
    IN IF Len(exact) > 0 THEN PyStr(exact[1])
       ELSE IF Len(matches) = 1 THEN PyStr(matches[1])
       ELSE IF Len(starts) > 0 THEN PyStr(starts[1])
       ELSE IF Len(matches) > 0 THEN PyStr(MinByLen(matches))
       ELSE PyStr(partial_name)

\* the position of the first cached branch whose lower() fails, 0 if none:
\* the loop of line 326 stops at an entry equal to the partial name
FirstNotStr(items, partial_name) ==
    LET bad == { i \in 1..Len(items) :
                   /\ items[i].t # "str"
                   /\ \A j \in 1..(i - 1) :
                          items[j].t = "str" /\ Lower(items[j].v) # Lower(partial_name) }
    IN IF bad = {} THEN 0 ELSE CHOOSE i \in bad : TRUE

\* a resolver that also records the branch it found
find_matching_branch_Caches(file, git, partial_name) ==
    LET l == get_cached_branches(file)
        Result(exc, ret) == [file |-> file, exc |-> exc, ret |-> ret]
        Cached(ret) == [file |-> add_branch_to_cache(file, ret.v, "ok").file,
                        exc |-> "none", ret |-> ret]
    IN IF l.exc # "none" THEN Result(l.exc, PyNone)
       ELSE IF Len(partial_name) = 0 THEN Result("none", PyStr(DEV))
       ELSE IF l.ret.t # "list" THEN Result("TypeError", PyNone)
       ELSE IF FirstNotStr(l.ret.v, partial_name) # 0 THEN Result("AttributeError", PyNone)
       ELSE IF match_cached(PyNames(l.ret), partial_name) # PyNone
            THEN Cached(match_cached(PyNames(l.ret), partial_name))
            ELSE Cached(match_available(get_available_branches(git), partial_name))

\* find_matching_branch(partial_name) on the branch cache file and the answer
\* of git: the file as the call leaves it, the exception that leaves the call,
\* the value returned.  A record that is no list of names raises where it is
\* iterated or lowered.
find_matching_branch(file, git, partial_name) ==
    LET l == get_cached_branches(file)
        Result(exc, ret) == [file |-> file, exc |-> exc, ret |-> ret]
    IN IF l.exc # "none" THEN Result(l.exc, PyNone)
       ELSE IF Len(partial_name) = 0 THEN Result("none", PyStr(DEV))
       ELSE IF l.ret.t # "list" THEN Result("TypeError", PyNone)
       ELSE IF FirstNotStr(l.ret.v, partial_name) # 0 THEN Result("AttributeError", PyNone)
       ELSE IF match_cached(PyNames(l.ret), partial_name) # PyNone
            THEN Result("none", match_cached(PyNames(l.ret), partial_name))
            ELSE Result("none",
                        match_available(get_available_branches(git), partial_name))

(***************************************************************************)
(* Inputs of the resolvers.                                                *)
(***************************************************************************)
PyStrs(names) == PyList([i \in 1..Len(names) |-> PyStr(names[i])])

\* sequences of at most n elements of S, and those without a repetition
SeqsUpTo(S, n) == UNION { [1..k -> S] : k \in 0..n }
DistinctSeqsUpTo(S, n) ==
    { s \in SeqsUpTo(S, n) : \A i, j \in 1..Len(s) : i # j => s[i] # s[j] }

\* entries of AVAILABLE_SERVICES per catalog
MaxCatalog == 3
\* jobs per job list
MaxJobs == 3
\* entries of the branch history per input
MaxHistory == 3

Eur == <<"e","u","r">>
Eurex == <<"e","u","r","e","x">>
Login == <<"l","o","g","i","n">>
EurexBuild == JOB_PREFIX \o Eurex \o BUILD_SUFFIX
EurexReportBuild == JOB_PREFIX \o Eurex \o REPORT_SUFFIX \o BUILD_SUFFIX

\* AVAILABLE_SERVICES: stripped, non-empty entries in the order of the variable
Catalogs ==
    SeqsUpTo({ Eur, <<"E","u","r","e","x">>, <<"x","e","u","r">>, <<"a","e","u","r">>,
               <<"u","r","-","x">> }, MaxCatalog)

ServicePartials ==
    { <<>>, Eur, <<"E","U","R">>, <<"u","r">>, <<"r">>, Eurex, <<"z","z">> }

\* what get_jobs returns: the jobs of the folder, each name once
JobNameLists ==
    DistinctSeqsUpTo({ EurexBuild, EurexReportBuild,
                       Eurex \o BUILD_SUFFIX,
                       <<"x","-">> \o Eurex \o BUILD_SUFFIX,
                       EurexBuild \o REPORT_SUFFIX,
                       <<"y","-","E","U","R","E","X","-","B","u","i","l","d">> }, MaxJobs)

JobPartials ==
    { <<>>, Eurex, <<"E","U","R","E","X">>, Eurex \o BUILD_SUFFIX, <<"x","-","e","u","r">>,
      <<"z","z">> }

\* names of build jobs that build may have selected
BuildJobNames ==
    { EurexBuild, EurexReportBuild,
      Eurex \o BUILD_SUFFIX,
      JOB_PREFIX \o <<"u","n","k","n","o","w","n","t","h","i","n","g">> \o BUILD_SUFFIX,
      JOB_PREFIX \o <<"a">> \o BUILD_SUFFIX \o <<"-","b">> \o BUILD_SUFFIX,
      JOB_PREFIX \o <<"x">> \o BUILD_SUFFIX \o <<"-","v","2">>,
      <<"x","-">> \o JOB_PREFIX \o <<"y">> \o BUILD_SUFFIX,
      JOB_PREFIX \o JOB_PREFIX \o <<"x">> \o BUILD_SUFFIX }

\* AVAILABLE_SERVICES for the extraction
ExtractCatalogs ==
    SeqsUpTo({ Eur, Eurex, <<"r","e","x">>, <<"E","U","R">>, <<"e","x">> }, MaxCatalog)

\* the branch cache record holding the history h
HistoryFile(h) == JsonFile(JsonEncode(PyDict([branches |-> PyStrs(h)])))

\* the histories that touches can have left: no name twice, never dev
HistoryFiles ==
    {Absent} \cup
    { HistoryFile(h) :
        h \in DistinctSeqsUpTo({ Login, Develop,
                                 <<"f","e","a","t","u","r","e","/","l","o","g","i","n","-","2">>,
                                 <<"L","o","g","i","n","-","o","l","d">> }, MaxHistory) }

\* what git branch -a may answer
GitAnswers ==
    { [outcome |-> "nonzero", stdout |-> <<>>],
      [outcome |-> "timeout", stdout |-> <<>>],
      [outcome |-> "missing", stdout |-> <<>>],
      [outcome |-> "ok", stdout |-> <<>>],
      [outcome |-> "ok",
       stdout |-> << <<"*"," ","m","a","i","n">>,
                     <<" "," ","f","e","a","t","u","r","e","/","l","o","g","i","n">>,
                     <<" "," ">> \o REMOTE_PREFIX \o
                         <<"H","E","A","D"," ","-",">"," ","o","r","i","g","i","n","/","m","a","i","n">>,
                     <<" "," ">> \o REMOTE_PREFIX \o <<"m","a","i","n">>,
                     <<" "," ">> \o REMOTE_PREFIX \o <<"f","i","x","-","l","o","g","i","n">>,
                     <<" "," ">> \o REMOTE_PREFIX \o <<"H","E","A","D">> >>] }

BranchPartials ==
    { <<>>, Login, <<"L","O","G">>, <<"o","g","i">>, DEV, <<"m","a","i">>, <<"a">>,
      <<"z","z">> }

(***************************************************************************)
(* The resolvers, applied to inputs drawn from the sets above.  A frame     *)
(* holds the arguments of a call; the call itself fills in the result.     *)
(***************************************************************************)
Frame(op, arg, pc, loc, ret) ==
    [op |-> op, arg |-> arg, pc |-> pc, loc |-> loc, ret |-> ret]

ServiceFrame(partial_name, available_services) ==
    Frame("find_matching_service",
          PyDict([partial_name |-> PyStr(partial_name),
                  available_services |-> PyStrs(available_services)]),
          "call", PyNone, PyNone)

JobFrame(partial_service_name, jobs) ==
    Frame("select_build_job",
          PyDict([partial_service_name |-> PyStr(partial_service_name),
                  jobs |-> PyStrs(jobs)]),
          "call", PyNone, PyNone)

ExtractFrame(build_job_name, available_services) ==
    Frame("extract_service",
          PyDict([build_job_name |-> PyStr(build_job_name),
                  available_services |-> PyStrs(available_services)]),
          "call", PyNone, PyNone)

\* the answer of git is kept with the frame
BranchFrame(partial_name, git) ==
    Frame("find_matching_branch", PyDict([partial_name |-> PyStr(partial_name)]),
          "call", git, PyNone)

InitResolve ==
    /\ \/ /\ \/ \E p \in ServicePartials, c \in Catalogs : proc = ServiceFrame(p, c)
             \/ \E p \in JobPartials, jobs \in JobNameLists : proc = JobFrame(p, jobs)
             \/ \E command \in {"job_params", "status", "console"},
                   p \in JobPartials, jobs \in JobNameLists :
                    proc = Frame("select_job",
                                 PyDict([command |-> command,
                                         partial_service_name |-> PyStr(p),
                                         jobs |-> PyStrs(jobs)]),
                                 "call", PyNone, PyNone)
             \/ \E n \in BuildJobNames, c \in ExtractCatalogs : proc = ExtractFrame(n, c)
          /\ branchFile = Absent
       \/ /\ \E p \in BranchPartials, git \in GitAnswers : proc = BranchFrame(p, git)
          /\ branchFile \in HistoryFiles
    /\ jobsFile = Absent
    /\ now = 0
    /\ call = NoCall
    /\ run = BrokenRun
    /\ stored = NothingStored
    /\ nextFresh = MaxFresh + 1
    /\ extras = 0
    /\ ticks = 0
    /\ writer = NoWriter

\* j scale / j deploy: find_matching_service(partial_service_name, AVAILABLE_SERVICES)
FindService ==
    /\ proc.op = "find_matching_service"
    /\ proc.pc = "call"
    /\ proc' = [proc EXCEPT !.pc = "done",
                            !.ret = find_matching_service(
                                        proc.arg.v.partial_name.v,
                                        PyNames(proc.arg.v.available_services))]
    /\ UNCHANGED <<branchFile, jobsFile, now, call, run, stored, nextFresh, extras,
                   ticks, writer>>

\* j build: the job is selected among the jobs that get_jobs returned
SelectJob ==
    /\ proc.op = "select_build_job"
    /\ proc.pc = "call"
    /\ proc' = [proc EXCEPT !.pc = "done",
                            !.ret = select_build_job(PyNames(proc.arg.v.jobs),
                                                     proc.arg.v.partial_service_name.v)]
    /\ UNCHANGED <<branchFile, jobsFile, now, call, run, stored, nextFresh, extras,
                   ticks, writer>>

\* j job-params, j status, j console: the job is selected among the jobs that
\* get_jobs returned
SelectCommandJob ==
    /\ proc.op = "select_job"
    /\ proc.pc = "call"
    /\ proc' = [proc EXCEPT
                   !.pc = "done",
                   !.ret = IF proc.arg.v.command = "job_params"
                           THEN select_params_job(PyNames(proc.arg.v.jobs),
                                                  proc.arg.v.partial_service_name.v)
                           ELSE select_status_job(PyNames(proc.arg.v.jobs),
                                                  proc.arg.v.partial_service_name.v)]
    /\ UNCHANGED <<branchFile, jobsFile, now, call, run, stored, nextFresh, extras,
                   ticks, writer>>

\* j build: SERVICENAME is taken from the name of the selected job
ExtractService ==
    /\ proc.op = "extract_service"
    /\ proc.pc = "call"
    /\ proc' = [proc EXCEPT !.pc = "done",
                            !.ret = PyStr(extract_service(
                                        proc.arg.v.build_job_name.v,
                                        PyNames(proc.arg.v.available_services)))]
    /\ UNCHANGED <<branchFile, jobsFile, now, call, run, stored, nextFresh, extras,
                   ticks, writer>>

\* j build: find_matching_branch(branch)
FindBranch ==
    LET r == find_matching_branch(branchFile, proc.loc, proc.arg.v.partial_name.v) IN
    /\ proc.op = "find_matching_branch"
    /\ proc.pc = "call"
    /\ branchFile' = r.file
    /\ proc' = [proc EXCEPT !.pc = IF r.exc = "none" THEN "done" ELSE "raised",
                            !.ret = r.ret]
    /\ UNCHANGED <<jobsFile, now, call, run, stored, nextFresh, extras, ticks, writer>>

\* find_matching_branch applied to its own result, the history and the answer
\* of git being the same
FindBranchAgain ==
    LET r == find_matching_branch(branchFile, proc.loc, proc.ret.v) IN
    /\ proc.op = "find_matching_branch"
    /\ proc.pc = "done"
    /\ branchFile' = r.file
    /\ proc' = [proc EXCEPT !.pc = IF r.exc = "none" THEN "again" ELSE "raised",
                            !.arg = PyDict([partial_name |-> proc.arg.v.partial_name,
                                            first |-> proc.ret]),
                            !.ret = r.ret]
    /\ UNCHANGED <<jobsFile, now, call, run, stored, nextFresh, extras, ticks, writer>>

NextResolve ==
    \/ FindService
    \/ SelectJob
    \/ SelectCommandJob
    \/ ExtractService
    \/ FindBranch
    \/ FindBranchAgain
    \/ \E name \in DevNames \cup ExtraNames(History), io \in NominalIO : Touch(name, io)
    \/ ClearBranches

\* the resolvers as functions of their inputs
SpecResolve == InitResolve /\ [][NextResolve]_vars

(***************************************************************************)
(* Service mode: C11 - C13.                                                *)
(***************************************************************************)
ServiceCalled == proc.op = "find_matching_service" /\ proc.pc = "done"
ServicePartial == proc.arg.v.partial_name.v
ServiceCatalog == PyNames(proc.arg.v.available_services)

EqualsIgnoringCase(s, p) == Lower(s) = Lower(p)
ContainsIgnoringCase(s, p) == PyIn(Lower(p), Lower(s))
StartsWithIgnoringCase(s, p) == StartsWith(Lower(s), Lower(p))

\* the positions of the candidates that are equal to, contain, start with p
EqualAt(C, p) == { i \in 1..Len(C) : EqualsIgnoringCase(C[i], p) }
ContainAt(C, p) == { i \in 1..Len(C) : ContainsIgnoringCase(C[i], p) }
StartAt(C, p) == { i \in ContainAt(C, p) : StartsWithIgnoringCase(C[i], p) }

First(C, I) == PyStr(C[CHOOSE i \in I : \A j \in I : i <= j])

\* r is a shortest candidate among those at the positions I
IsShortest(C, I, r) ==
    \E i \in I : r = PyStr(C[i]) /\ \A j \in I : Len(C[i]) <= Len(C[j])

\* r is what the Service-mode cascade yields for p over C
IsServiceCascade(C, p, r) ==
    IF EqualAt(C, p) # {} THEN \E i \in EqualAt(C, p) : r = PyStr(C[i])
    ELSE IF Cardinality(ContainAt(C, p)) = 1 THEN r = First(C, ContainAt(C, p))
    ELSE IF StartAt(C, p) # {} THEN r = First(C, StartAt(C, p))
    ELSE IF ContainAt(C, p) # {} THEN IsShortest(C, ContainAt(C, p), r)
    ELSE r = PyNone

\* C11 as stated: for every partial, the empty one included, and every
\* catalog, find_matching_service returns what the Service-mode cascade yields
C11_AsStated ==
    ServiceCalled => IsServiceCascade(ServiceCatalog, ServicePartial, proc.ret)

\* C11, amended: for every non-empty partial and every catalog,
\* find_matching_service returns what the Service-mode cascade yields (the
\* equal candidate, else the single one containing partial, else the first
\* that starts with it, else the shortest containing it, else None); for the
\* empty partial it returns None
C11_ServiceCascade ==
    ServiceCalled =>
        IF Len(ServicePartial) = 0 THEN proc.ret = PyNone
        ELSE IsServiceCascade(ServiceCatalog, ServicePartial, proc.ret)

\* several candidates contain the partial, none equals it, one that is not the
\* first of them starts with it
C11_Witness ==
    /\ ServiceCalled
    /\ Len(ServicePartial) > 0
    /\ EqualAt(ServiceCatalog, ServicePartial) = {}
    /\ Cardinality(ContainAt(ServiceCatalog, ServicePartial)) > 1
    /\ \E i \in StartAt(ServiceCatalog, ServicePartial) :
           \E j \in ContainAt(ServiceCatalog, ServicePartial) : j < i
    /\ proc.ret = First(ServiceCatalog, StartAt(ServiceCatalog, ServicePartial))

\* C12: a partial equal to a catalog entry ignoring case resolves to the first
\* such entry in catalog order, whatever else contains or starts with it; and
\* over the empty catalog every partial resolves to None
C12_ExactMatchWins ==
    ServiceCalled =>
        /\ EqualAt(ServiceCatalog, ServicePartial) # {}
               => proc.ret = First(ServiceCatalog, EqualAt(ServiceCatalog, ServicePartial))
        /\ Len(ServiceCatalog) = 0 => proc.ret = PyNone

\* the equal entry is returned although an earlier entry starts with the partial
C12_Witness ==
    /\ ServiceCalled
    /\ \E i \in EqualAt(ServiceCatalog, ServicePartial) :
           /\ proc.ret = PyStr(ServiceCatalog[i])
           /\ \E j \in StartAt(ServiceCatalog, ServicePartial) : j < i

\* the empty catalog was asked with a non-empty partial
C12_EmptyCatalogReached ==
    ServiceCalled /\ Len(ServiceCatalog) = 0 /\ Len(ServicePartial) > 0

\* C13: when two or more candidates contain the non-empty partial, none equals
\* it and none starts with it, the result is the first in catalog order of the
\* shortest candidates containing it
C13_ShortestFirstOnTies ==
    ( /\ ServiceCalled
      /\ Len(ServicePartial) > 0
      /\ Cardinality(ContainAt(ServiceCatalog, ServicePartial)) >= 2
      /\ EqualAt(ServiceCatalog, ServicePartial) = {}
      /\ StartAt(ServiceCatalog, ServicePartial) = {} )
    => LET I == ContainAt(ServiceCatalog, ServicePartial)
           S == { i \in I : \A j \in I : Len(ServiceCatalog[i]) <= Len(ServiceCatalog[j]) }
       IN proc.ret = First(ServiceCatalog, S)

\* two candidates of the same, minimal length contain the partial, after a
\* longer one
C13_Witness ==
    /\ ServiceCalled
    /\ Len(ServicePartial) > 0
    /\ EqualAt(ServiceCatalog, ServicePartial) = {}
    /\ StartAt(ServiceCatalog, ServicePartial) = {}
    /\ LET I == ContainAt(ServiceCatalog, ServicePartial)
           S == { i \in I : \A j \in I : Len(ServiceCatalog[i]) <= Len(ServiceCatalog[j]) }
       IN /\ Cardinality(S) >= 2
          /\ proc.ret = First(ServiceCatalog, S)
          /\ \E j \in I \ S : \A i \in S : j < i

(***************************************************************************)
(* Job mode and the service extraction: C14, C16, C17.                     *)
(***************************************************************************)
JobCalled == proc.op = "select_build_job" /\ proc.pc = "done"
JobPartial == proc.arg.v.partial_service_name.v
JobList == PyNames(proc.arg.v.jobs)

\* the positions of the build jobs in the job list
BuildAt(J) ==
    { i \in 1..Len(J) : PyIn(BUILD, Lower(J[i])) /\ ~EndsWith(Lower(J[i]), REPORT_SUFFIX) }

\* the positions that the Job-mode cascade keeps
JobKept(J, p) ==
    LET M == { i \in BuildAt(J) : ContainsIgnoringCase(J[i], p) }
        E == { i \in M : EqualsIgnoringCase(J[i], p) }
        P == { i \in M : StartsWithIgnoringCase(J[i], JOB_PREFIX \o p) }
        S == { i \in M : StartsWithIgnoringCase(J[i], p) }
    IN IF Cardinality(M) <= 1 THEN M
       ELSE IF E # {} THEN E
       ELSE IF P # {} THEN P
       ELSE IF S # {} THEN S
       ELSE M

\* C14: build selects the first, in list order, of the jobs that the Job-mode
\* cascade keeps among the build jobs containing partial (the equal ones, else
\* those starting with "test-collateral-" + partial, else those starting with
\* partial, else all); "eurex" over test-collateral-eurex-build and
\* test-collateral-eurex-report-build selects test-collateral-eurex-build
C14_JobCascade ==
    JobCalled =>
        /\ JobKept(JobList, JobPartial) # {}
               => proc.ret = First(JobList, JobKept(JobList, JobPartial))
        /\ JobKept(JobList, JobPartial) = {} => proc.ret = PyNone
        /\ (JobList = <<EurexBuild, EurexReportBuild>> /\ JobPartial = <<"e","u","r","e","x">>)
               => proc.ret = PyStr(EurexBuild)

\* a job starting with "test-collateral-" + partial is selected although an
\* earlier job starts with partial
C14_Witness ==
    /\ JobCalled
    /\ \E i, j \in BuildAt(JobList) :
           /\ j < i
           /\ StartsWithIgnoringCase(JobList[j], JobPartial)
           /\ StartsWithIgnoringCase(JobList[i], JOB_PREFIX \o JobPartial)
           /\ proc.ret = PyStr(JobList[i])

\* the example of the claim was run
C14_ExampleReached ==
    /\ JobCalled
    /\ JobList = <<EurexBuild, EurexReportBuild>>
    /\ JobPartial = <<"e","u","r","e","x">>
    /\ proc.ret = PyStr(EurexBuild)

ExtractCalled == proc.op = "extract_service" /\ proc.pc = "done"
ExtractJob == proc.arg.v.build_job_name.v
ExtractCatalog == PyNames(proc.arg.v.available_services)

\* the positions of the catalog entries that occur in the job name
OccurAt(C, name) == { i \in 1..Len(C) : PyIn(C[i], name) }

\* C16: when a catalog entry occurs in the selected job name, SERVICENAME is
\* the first in catalog order of the longest entries occurring in it; for
\* test-collateral-eurex-build and the catalog eurex, eur in either order it is
\* eurex
C16_LongestCatalogMatch ==
    ExtractCalled =>
        LET I == OccurAt(ExtractCatalog, ExtractJob)
            L == { i \in I : \A j \in I : Len(ExtractCatalog[i]) >= Len(ExtractCatalog[j]) }
        IN /\ I # {} => proc.ret = First(ExtractCatalog, L)
           /\ ( /\ ExtractJob = EurexBuild
                /\ ExtractCatalog \in { <<<<"e","u","r","e","x">>, Eur>>, <<Eur, <<"e","u","r","e","x">>>> } )
              => proc.ret = PyStr(<<"e","u","r","e","x">>)

\* two entries of the same, maximal length occur in the job name, after a
\* shorter one
C16_Witness ==
    /\ ExtractCalled
    /\ LET I == OccurAt(ExtractCatalog, ExtractJob)
           L == { i \in I : \A j \in I : Len(ExtractCatalog[i]) >= Len(ExtractCatalog[j]) }
       IN /\ \E i, j \in L : ExtractCatalog[i] # ExtractCatalog[j]
          /\ \E j \in I \ L : \A i \in L : j < i
          /\ proc.ret = First(ExtractCatalog, L)

\* the example of the claim was run with the shorter entry first
C16_ExampleReached ==
    /\ ExtractCalled
    /\ ExtractJob = EurexBuild
    /\ ExtractCatalog = <<Eur, <<"e","u","r","e","x">>>>

\* the job name without its leading "test-collateral-" and trailing "-build"
StripBoth(name) == SubSeq(name, Len(JOB_PREFIX) + 1, Len(name) - Len(BUILD_SUFFIX))

\* C17: when no catalog entry occurs in the job name, SERVICENAME is the job
\* name without its leading "test-collateral-" and its trailing "-build" if the
\* name begins with the one and ends with the other, and the job name
\* unchanged in every other case
C17_AsStated ==
    (ExtractCalled /\ OccurAt(ExtractCatalog, ExtractJob) = {}) =>
        IF /\ StartsWith(ExtractJob, JOB_PREFIX)
           /\ EndsWith(ExtractJob, BUILD_SUFFIX)
           /\ Len(ExtractJob) >= Len(JOB_PREFIX) + Len(BUILD_SUFFIX)
        THEN proc.ret = PyStr(StripBoth(ExtractJob))
        ELSE proc.ret = PyStr(ExtractJob)

(***************************************************************************)
(* Branch mode: C15.                                                       *)
(***************************************************************************)
BranchCalled == proc.op = "find_matching_branch" /\ proc.pc = "done"
BranchPartial == proc.arg.v.partial_name.v
\* the fallback list of the call
Fallback == get_available_branches(proc.loc)

\* r is what the cascade yields for p over C when some candidate contains p;
\* the last tier takes the first match, or a shortest one
IsTierResult(C, p, shortest, r) ==
    IF EqualAt(C, p) # {} THEN \E i \in EqualAt(C, p) : r = PyStr(C[i])
    ELSE IF Cardinality(ContainAt(C, p)) = 1 THEN r = First(C, ContainAt(C, p))
    ELSE IF StartAt(C, p) # {} THEN r = First(C, StartAt(C, p))
    ELSE IF shortest THEN IsShortest(C, ContainAt(C, p), r)
    ELSE r = First(C, ContainAt(C, p))

\* r is what the Branch-mode cascade yields for p over the history H and the
\* fallback list F
IsBranchCascade(H, F, p, r) ==
    IF Len(p) = 0 THEN r = PyStr(DEV)
    ELSE IF ContainAt(H, p) # {} THEN IsTierResult(H, p, FALSE, r)
    ELSE IF ContainAt(F, p) # {} THEN IsTierResult(F, p, TRUE, r)
    ELSE r = PyStr(p)

\* C15: find_matching_branch returns what the Branch-mode cascade yields: dev
\* for the empty partial; else from the history the equal entry, else the only
\* one containing partial, else the first starting with it, else the first
\* containing it; if no history entry contains partial the same over the
\* fallback list, ending with a shortest entry containing it; partial itself
\* when neither has such an entry.  The result is never None nor empty.
C15_BranchCascade ==
    BranchCalled =>
        /\ IsBranchCascade(History, Fallback, BranchPartial, proc.ret)
        /\ proc.ret.t = "str"
        /\ Len(proc.ret.v) > 0

\* several history entries contain the partial, none equals it or starts with
\* it, and the most recent of them is not the shortest
C15_Witness ==
    /\ BranchCalled
    /\ Len(BranchPartial) > 0
    /\ EqualAt(History, BranchPartial) = {}
    /\ StartAt(History, BranchPartial) = {}
    /\ Cardinality(ContainAt(History, BranchPartial)) >= 2
    /\ proc.ret = First(History, ContainAt(History, BranchPartial))
    /\ \E i \in ContainAt(History, BranchPartial) : Len(History[i]) < Len(proc.ret.v)

\* no history entry contains the partial and the shortest of several fallback
\* entries containing it, which is not the first of them, is returned
C15_FallbackReached ==
    /\ BranchCalled
    /\ Len(History) > 0
    /\ ContainAt(History, BranchPartial) = {}
    /\ StartAt(Fallback, BranchPartial) = {}
    /\ Cardinality(ContainAt(Fallback, BranchPartial)) >= 2
    /\ proc.ret # First(Fallback, ContainAt(Fallback, BranchPartial))
    /\ IsShortest(Fallback, ContainAt(Fallback, BranchPartial), proc.ret)

\* neither the history nor the fallback list has an entry containing the partial
C15_UnchangedReached ==
    /\ BranchCalled
    /\ Len(History) > 0
    /\ proc.ret = PyStr(BranchPartial)
    /\ ContainAt(Fallback, BranchPartial) = {}

(***************************************************************************)
(* Resolution and the persisted state: C20.                                *)
(***************************************************************************)
\* C20: a call of find_matching_service or find_matching_branch leaves the job
\* cache record and the branch cache record as they are, and the branch
\* history changes only in a step of add_branch_to_cache or of the clear of
\* the cache command
C20_ResolutionHasNoSideEffects ==
    [][ /\ ( /\ proc.op \in {"find_matching_service", "find_matching_branch"}
             /\ proc.pc = "call"
             /\ proc'.pc \in {"done", "raised"} )
            => (branchFile' = branchFile /\ jobsFile' = jobsFile)
        /\ HistoryNames(branchFile') # History
            => (proc'.op = "none" /\ call'.op \in {"touch", "clear_branches"}) ]_vars

\* find_matching_branch resolved a partial to an entry of the history that is
\* not the most recent one, and the history is as it was
C20_Witness ==
    /\ BranchCalled
    /\ Len(History) >= 2
    /\ proc.ret = PyStr(History[2])
    /\ branchFile \in HistoryFiles

\* a touch changed the history
C20_TouchReached ==
    /\ call.op = "touch"
    /\ call.pre # PyStrs(History)

\* the clear of the cache command emptied a history
C20_ClearReached ==
    /\ call.op = "clear_branches"
    /\ branchFile = Absent

(***************************************************************************)
(* Polling: wait_for_build_to_finish and the follow loop of console.       *)
(* A frame holds the position in the loop and its locals; Jenkins answers  *)
(* each query as it likes.                                                 *)
(***************************************************************************)
\* wait_for_build_to_finish(..., timeout=300, poll_interval=5)
WAIT_TIMEOUT == 300
POLL_INTERVAL == 5
\* time.sleep(2) of the follow loop
FOLLOW_INTERVAL == 2

\* the follow loop does not read the clock: it is advanced up to this value
MaxFollowClock == 12

TIMEOUT == <<"T","I","M","E","O","U","T">>

\* what a call of get_build_info may do: answer with the status of the build,
\* or raise
BuildInfos ==
    { [kind |-> "info", building |-> TRUE, result |-> PyNone],
      [kind |-> "info", building |-> FALSE, result |-> PyStr(<<"S","U","C","C","E","S","S">>)],
      [kind |-> "info", building |-> FALSE, result |-> PyStr(<<"F","A","I","L","U","R","E">>)],
      [kind |-> "error", building |-> FALSE, result |-> PyNone] }

\* the console log that Jenkins holds grows towards this text
FullLog == <<"a", "\n", "b", "c">>

\* line 190: time.time() - start_time < timeout
LoopContinues(clock, start_time, timeout) == clock - start_time < timeout

\* a test that takes every answer for the end of the build
BuildOver_Always(build_info) == TRUE

\* line 193: not build_info.get('building')
BuildOver(build_info) == ~build_info.building

\* str.splitlines()
RECURSIVE SplitLines(_)
SplitLines(s) ==
    LET breaks == { i \in 1..Len(s) : s[i] = "\n" }
        k == CHOOSE i \in breaks : \A j \in breaks : i <= j
    IN IF Len(s) = 0 THEN <<>>
       ELSE IF breaks = {} THEN <<s>>
       ELSE <<SubSeq(s, 1, k - 1)>> \o SplitLines(SubSeq(s, k + 1, Len(s)))

\* "\n".join(lines)
RECURSIVE JoinLines(_)
JoinLines(lines) ==
    IF Len(lines) = 0 THEN <<>>
    ELSE IF Len(lines) = 1 THEN lines[1]
    ELSE lines[1] \o <<"\n">> \o JoinLines(Tail(lines))

\* lines 1412-1415: the last n lines of the output when --tail is given
TailOf(console_output, tail, n) ==
    IF tail /\ Len(console_output) > 0 /\ Len(SplitLines(console_output)) > n
    THEN JoinLines(SubSeq(SplitLines(console_output),
                          Len(SplitLines(console_output)) - n + 1,
                          Len(SplitLines(console_output))))
    ELSE console_output

\* the locals of the two loops, with what was echoed so far (out), and of the
\* console log that Jenkins holds the length when the command last queried
\* the status (log), at its first fetch (first) and at its last fetch (seen)
PollLocals(log) ==
    [start_time |-> 0,
     build_info |-> [kind |-> "none", building |-> FALSE, result |-> PyNone],
     console_output |-> <<>>, last_size |-> 0, out |-> <<>>,
     log |-> log, first |-> log, seen |-> log]

WaitFrame ==
    Frame("wait_for_build_to_finish",
          PyDict([timeout |-> PyInt(WAIT_TIMEOUT), poll_interval |-> PyInt(POLL_INTERVAL)]),
          "call", PollLocals(0), PyNone)

\* j console ... --follow [--tail --lines n], from line 1403 on
FollowFrame(tail, lines, log) ==
    Frame("console",
          PyDict([follow |-> TRUE, tail |-> tail, lines |-> PyInt(lines)]),
          "call", PollLocals(log), PyNone)

InitPoll ==
    /\ \/ proc = WaitFrame
       \/ \E tail \in BOOLEAN, lines \in 1..2, log \in 0..Len(FullLog) :
              proc = FollowFrame(tail, lines, log)
    /\ branchFile = Absent
    /\ jobsFile = Absent
    /\ now = 0
    /\ call = NoCall
    /\ run = BrokenRun
    /\ stored = NothingStored
    /\ nextFresh = MaxFresh + 1
    /\ extras = 0
    /\ ticks = 0
    /\ writer = NoWriter

\* line 188: start_time = time.time()
WaitStart ==
    /\ proc.op = "wait_for_build_to_finish" /\ proc.pc = "call"
    /\ proc' = [proc EXCEPT !.pc = "test", !.loc.start_time = now]
    /\ UNCHANGED <<branchFile, jobsFile, now, call, run, stored, nextFresh, extras,
                   ticks, writer>>

\* line 190, and lines 201-202 when the loop is left
WaitTest ==
    /\ proc.op = "wait_for_build_to_finish" /\ proc.pc = "test"
    /\ proc' = IF LoopContinues(now, proc.loc.start_time, proc.arg.v.timeout.v)
               THEN [proc EXCEPT !.pc = "query"]
               ELSE [proc EXCEPT !.pc = "done", !.ret = PyStr(TIMEOUT)]
    /\ UNCHANGED <<branchFile, jobsFile, now, call, run, stored, nextFresh, extras,
                   ticks, writer>>

\* lines 191-199 up to the sleep: the status query, which Jenkins answers with
\* build_info or which raises, and which takes d seconds
WaitQuery(build_info, d) ==
    /\ proc.op = "wait_for_build_to_finish" /\ proc.pc = "query"
    /\ now' = now + d
    /\ proc' = IF build_info.kind = "info" /\ BuildOver(build_info)
               THEN [proc EXCEPT !.pc = "done", !.loc.build_info = build_info,
                                 !.ret = build_info.result]
               ELSE [proc EXCEPT !.pc = "sleep", !.loc.build_info = build_info]
    /\ UNCHANGED <<branchFile, jobsFile, call, run, stored, nextFresh, extras, ticks,
                   writer>>

\* lines 196 and 199: time.sleep(poll_interval), which returns d seconds late
WaitSleep(d) ==
    /\ proc.op = "wait_for_build_to_finish" /\ proc.pc = "sleep"
    /\ now' = now + proc.arg.v.poll_interval.v + d
    /\ proc' = [proc EXCEPT !.pc = "test"]
    /\ UNCHANGED <<branchFile, jobsFile, call, run, stored, nextFresh, extras, ticks,
                   writer>>

\* lines 1403-1422: the first output and then the status, echoed; the log has
\* grown to the length log when the status is queried; any failure of Jenkins
\* ends the command at line 1456
FollowOpen(log, build_info) ==
    LET console_output == SubSeq(FullLog, 1, proc.loc.first)
        shown == TailOf(console_output, proc.arg.v.tail, proc.arg.v.lines.v)
    IN
    /\ proc.op = "console" /\ proc.pc = "call"
    /\ log >= proc.loc.first
    /\ proc' = IF build_info.kind = "error"
               THEN [proc EXCEPT !.pc = "raised", !.loc.log = log]
               ELSE [proc EXCEPT !.pc = "loop",
                                 !.loc.log = log,
                                 !.loc.build_info = build_info,
                                 !.loc.console_output = shown,
                                 !.loc.out = shown,
                                 !.loc.last_size = Len(shown)]
    /\ UNCHANGED <<branchFile, jobsFile, now, call, run, stored, nextFresh, extras,
                   ticks, writer>>

\* line 1423 true, line 1424: time.sleep(2)
FollowSleep ==
    /\ proc.op = "console" /\ proc.pc = "loop"
    /\ proc.loc.build_info.building
    /\ now' = IF now + FOLLOW_INTERVAL <= MaxFollowClock THEN now + FOLLOW_INTERVAL ELSE now
    /\ proc' = [proc EXCEPT !.pc = "fetch"]
    /\ UNCHANGED <<branchFile, jobsFile, call, run, stored, nextFresh, extras, ticks,
                   writer>>

\* lines 1426-1436: the log, of length seen when it is fetched and of length
\* log when the status is queried after it
FollowPoll(seen, log, build_info) ==
    LET new_output == SubSeq(FullLog, 1, seen) IN
    /\ proc.op = "console" /\ proc.pc = "fetch"
    /\ seen >= proc.loc.log
    /\ log >= seen
    /\ proc' = IF build_info.kind = "error"
               THEN [proc EXCEPT !.pc = "raised", !.loc.seen = seen, !.loc.log = log]
               ELSE IF Len(new_output) > proc.loc.last_size
               THEN [proc EXCEPT !.pc = "loop", !.loc.seen = seen, !.loc.log = log,
                                 !.loc.build_info = build_info,
                                 !.loc.out = @ \o SubSeq(new_output, proc.loc.last_size + 1,
                                                         Len(new_output)),
                                 !.loc.last_size = Len(new_output)]
               ELSE [proc EXCEPT !.pc = "loop", !.loc.seen = seen, !.loc.log = log,
                                 !.loc.build_info = build_info]
    /\ UNCHANGED <<branchFile, jobsFile, now, call, run, stored, nextFresh, extras,
                   ticks, writer>>

\* line 1423 false, lines 1438-1440: the result is reported
FollowEnd ==
    /\ proc.op = "console" /\ proc.pc = "loop"
    /\ ~proc.loc.build_info.building
    /\ proc' = [proc EXCEPT !.pc = "done", !.ret = proc.loc.build_info.result]
    /\ UNCHANGED <<branchFile, jobsFile, now, call, run, stored, nextFresh, extras,
                   ticks, writer>>

NextPoll ==
    \/ WaitStart
    \/ WaitTest
    \/ \E build_info \in BuildInfos, d \in 0..1 : WaitQuery(build_info, d)
    \/ \E d \in 0..1 : WaitSleep(d)
    \/ \E log \in 0..Len(FullLog), build_info \in BuildInfos : FollowOpen(log, build_info)
    \/ FollowSleep
    \/ \E seen, log \in 0..Len(FullLog), build_info \in BuildInfos :
           FollowPoll(seen, log, build_info)
    \/ FollowEnd

\* the polling loops; the process keeps running while it has a step to take
SpecPoll == InitPoll /\ [][NextPoll]_vars /\ WF_vars(NextPoll)

(***************************************************************************)
(* Polling: C18, C19.                                                      *)
(***************************************************************************)
Waiting == proc.op = "wait_for_build_to_finish"
Following == proc.op = "console"

\* wait_for_build_to_finish returned
WaitDone == Waiting /\ proc.pc = "done"

\* what holds of wait_for_build_to_finish at every moment
WaitSafe ==
    Waiting =>
        /\ proc.pc # "raised"
        /\ (proc.loc.build_info.kind = "info" /\ ~proc.loc.build_info.building)
               => (proc.pc = "done" /\ proc.ret = proc.loc.build_info.result)
        /\ (proc.pc = "done" /\ proc.ret # PyStr(TIMEOUT))
               => /\ proc.loc.build_info.kind = "info"
                  /\ ~proc.loc.build_info.building
                  /\ proc.ret = proc.loc.build_info.result
        /\ (proc.pc = "done" /\ proc.ret = PyStr(TIMEOUT))
               => /\ now - proc.loc.start_time >= WAIT_TIMEOUT
                  /\ proc.loc.build_info.kind = "error" \/ proc.loc.build_info.building

\* C18: wait_for_build_to_finish terminates; it returns the result of the
\* build at the first status query that reports building = false, never a
\* result of a query that reported building = true, and it returns "TIMEOUT",
\* without raising, when the timeout has elapsed with the build still running
\* or every query failing
C18_WaitTerminates ==
    /\ []WaitSafe
    /\ Waiting => <>WaitDone

\* the timeout elapsed with every query answered by building = true or failing
C18_Witness ==
    /\ WaitDone
    /\ proc.ret = PyStr(TIMEOUT)
    /\ now - proc.loc.start_time >= WAIT_TIMEOUT

\* a query reported the end of the build before the timeout, after a sleep
C18_ResultReached ==
    /\ WaitDone
    /\ proc.ret = PyStr(<<"F","A","I","L","U","R","E">>)
    /\ now - proc.loc.start_time >= POLL_INTERVAL
    /\ now - proc.loc.start_time < WAIT_TIMEOUT

\* every status query of the follow loop is answered, with building = true
NeverStopsBuilding ==
    /\ proc.pc # "raised"
    /\ proc.pc # "call" => proc.loc.build_info.building

\* C19: when the build never stops building, following the console output
\* still ends, with a timeout as its outcome
C19_AsStated ==
    (Following /\ []NeverStopsBuilding)
        => <>(proc.pc = "done" /\ proc.ret = PyStr(TIMEOUT))

(***************************************************************************)
(* The job choice of the other commands: C24.                              *)
(***************************************************************************)
\* a command chose its job among jobs that are all build jobs, so that the
\* four commands search the same candidates
CommandJobCalled ==
    /\ proc.op \in {"select_build_job", "select_job"}
    /\ proc.pc = "done"
    /\ BuildAt(JobList) = 1..Len(JobList)

\* C24 as stated: given the same candidates and the same partial name, build,
\* job_params, status and console all select the job that the cascade
\* exact, "test-collateral-" + partial prefix, partial prefix, first in order
\* selects.
C24_AsStated ==
    CommandJobCalled =>
        proc.ret = IF JobKept(JobList, JobPartial) = {} THEN PyNone
                   ELSE First(JobList, JobKept(JobList, JobPartial))

(***************************************************************************)
(* The default branch and repeated resolution: C25, C26.                   *)
(***************************************************************************)
\* C25 as stated: a build without --branch passes "dev" to
\* find_matching_branch, which returns "dev" for every history that touches
\* can have left, the fallback list containing "dev".
C25_AsStated ==
    (BranchCalled /\ BranchPartial = DEV /\ ListContains(Fallback, DEV))
        => proc.ret = PyStr(DEV)

\* C26 as stated: for every partial, the empty one included, applying
\* find_matching_branch to its own result gives that result again, the history
\* and the fallback list being the same.
C26_AsStated ==
    (proc.op = "find_matching_branch" /\ proc.pc = "again")
        => proc.ret = proc.arg.v.first

(***************************************************************************)
(* What the follow loop prints: C27, C28.                                  *)
(***************************************************************************)
\* the follow loop of console has echoed its first output
Echoing == proc.op = "console" /\ proc.pc \in {"loop", "fetch", "done"}

\* C27 as stated: with or without --tail, what console --follow has printed
\* is the initially displayed text followed, once and without a gap, by the
\* console output that lies after the text fetched first, up to the last fetch.
C27_AsStated ==
    Echoing =>
        proc.loc.out = proc.loc.console_output
                           \o SubSeq(FullLog, proc.loc.first + 1, proc.loc.seen)

\* C28 as stated: when console --follow ends because the build is reported as
\* no longer building, what it has printed ends with all the output that the
\* build produced after the text fetched first, whenever the build appended
\* output and finished.
C28_AsStated ==
    (proc.op = "console" /\ proc.pc = "done") =>
        \E k \in 0..Len(proc.loc.out) :
            SubSeq(proc.loc.out, k + 1, Len(proc.loc.out))
                = SubSeq(FullLog, proc.loc.first + 1, proc.loc.log)

(***************************************************************************)
(* The commands that use Jenkins, up to the job list they work on.         *)
(* A frame holds the options and what the configuration and Jenkins        *)
(* answer (env), the job cache file as the command found it (before),      *)
(* whether load_jobs_cache was called (cache_read), and the exit status.   *)
(***************************************************************************)
\* j jobs [--refresh], lines 389-495: get_jobs comes first; SystemExit leaves
\* the process with status 1, every other exception is reported at line 494
JobsCommand(refresh, env, io) ==
    LET r == get_jobs(jobsFile, now, refresh, env, io) IN
    /\ extras = 0
    /\ jobsFile' = r.file
    /\ stored' = StoredAfter(r, r.ret)
    /\ call' = Called("get_jobs", env.folder_info, PyNone, r.ret, r.exc, r.save, r.contacted)
    /\ proc' = Frame("jobs", PyDict([refresh |-> refresh, env |-> env]),
                     IF r.exc = "SystemExit" THEN "exit" ELSE "done",
                     [before |-> jobsFile, cache_read |-> ~refresh],
                     PyInt(IF r.exc = "SystemExit" THEN 1 ELSE 0))
    /\ extras' = extras + 1
    /\ UNCHANGED <<branchFile, now, run, nextFresh, ticks, writer>>

\* j build, j job-params, j status, j console (lines 741-745, 1023-1027,
\* 1177-1181, 1317-1321): get_jenkins_client, then get_jobs(); j scale and
\* j deploy (lines 663, 1102): get_jenkins_client and no job list
ClientCommand(command, env, io) ==
    LET r == get_jobs(jobsFile, now, FALSE, env, io)
        lists == command \in {"build", "job_params", "status", "console"}
        exits == get_jenkins_client(env) # "none"
    IN
    /\ extras = 0
    /\ jobsFile' = IF exits \/ ~lists THEN jobsFile ELSE r.file
    /\ stored' = IF exits \/ ~lists THEN stored ELSE StoredAfter(r, r.ret)
    /\ call' = IF exits \/ ~lists
               THEN Called("get_jenkins_client", PyNone, PyNone, PyNone,
                           get_jenkins_client(env), "none", env.configured)
               ELSE Called("get_jobs", env.folder_info, PyNone, r.ret, r.exc, r.save,
                           r.contacted)
    /\ proc' = Frame(command, PyDict([refresh |-> FALSE, env |-> env]),
                     IF exits THEN "exit" ELSE "done",
                     [before |-> jobsFile, cache_read |-> ~exits /\ lists],
                     PyInt(IF exits THEN 1 ELSE 0))
    /\ extras' = extras + 1
    /\ UNCHANGED <<branchFile, now, run, nextFresh, ticks, writer>>

NextCommand ==
    \/ \E refresh \in BOOLEAN, env \in Envs, io \in FaultyIO : JobsCommand(refresh, env, io)
    \/ \E command \in {"build", "job_params", "status", "console", "scale", "deploy"},
          env \in Envs, io \in FaultyIO : ClientCommand(command, env, io)
    \/ \E d \in TickSteps : Tick(d)

\* one command, run at any time over a job cache file found in any state
SpecCommand == InitFaults /\ [][NextCommand]_vars

(***************************************************************************)
(* Configuration errors and failed refreshes: C21, C30.                    *)
(***************************************************************************)
\* a command that uses Jenkins ran last
CommandRan == proc.op \in {"jobs", "build", "job_params", "status", "console", "scale", "deploy"}

\* C21 as stated: when the connection settings are missing, every command that
\* uses Jenkins exits with a non-zero status before any lookup of the job
\* cache; the jobs command neither reads nor serves the job cache.
C21_AsStated ==
    (CommandRan /\ ~proc.arg.v.env.configured) =>
        /\ proc.pc = "exit"
        /\ proc.ret = PyInt(1)
        /\ ~proc.loc.cache_read

\* the command that ran last called get_jobs
GetJobsRan == CommandRan /\ call.op = "get_jobs"

\* the request for the folder failed, or the folder was not found
FetchFailed ==
    /\ proc.arg.v.env.configured /\ proc.arg.v.env.reachable
    /\ proc.arg.v.env.folder_raises \/ ~Truthy(proc.arg.v.env.folder_info)

\* the request for the folder was answered with the folder
FetchSucceeded ==
    /\ proc.arg.v.env.configured /\ proc.arg.v.env.reachable
    /\ ~proc.arg.v.env.folder_raises /\ Truthy(proc.arg.v.env.folder_info)

\* the job cache file that the command found held a valid record
CacheWasValid ==
    /\ load_jobs_cache(proc.loc.before, now).exc = "none"
    /\ load_jobs_cache(proc.loc.before, now).ret # PyNone

C30_ExpiredReached ==
    /\ GetJobsRan
    /\ ~proc.arg.v.refresh
    /\ call.contacted /\ FetchFailed
    /\ proc.loc.before = JobsRecord(PyStr(ToIso(0)), PyList(<<JobA>>))
    /\ jobsFile = proc.loc.before

(***************************************************************************)
(* j build from the trigger on, lines 894-1012.  The frame holds, besides  *)
(* the locals of the command (build_number), what Jenkins holds of the     *)
(* job: the number of its last build (last, 0 when it has none), whether   *)
(* the build of this invocation is in the queue (queued) and the number    *)
(* Jenkins gave it when it started (mine, 0 before); posts counts the      *)
(* trigger requests sent.                                                  *)
(***************************************************************************)
\* builds of the job that Jenkins starts at most
MaxBuilds == 4

InitBuild ==
    /\ \E last \in 0..(MaxBuilds - 1) :
           proc = Frame("build", PyNone, "post",
                        [last |-> last, queued |-> FALSE, mine |-> 0, posts |-> 0,
                         build_number |-> PyNone],
                        PyNone)
    /\ branchFile = Absent
    /\ jobsFile = Absent
    /\ now = 0
    /\ call = NoCall
    /\ run = BrokenRun
    /\ stored = NothingStored
    /\ nextFresh = MaxFresh + 1
    /\ extras = 0
    /\ ticks = 0
    /\ writer = NoWriter

\* lines 925-959: requests.post; a status other than 201 and 302 raises
TriggerPost(outcome) ==
    /\ proc.op = "build"
    /\ proc.pc = "post"
    /\ proc' = [proc EXCEPT !.pc = IF outcome = "ok" THEN "queued" ELSE "fallback",
                            !.loc.posts = @ + 1,
                            !.loc.queued = (outcome = "ok")]
    /\ UNCHANGED <<branchFile, jobsFile, now, call, run, stored, nextFresh, extras,
                   ticks, writer>>

\* lines 960-970: server.build_job after the request failed; when it raises
\* too, the first exception is raised again and reported at line 1015
TriggerFallback(outcome) ==
    /\ proc.op = "build"
    /\ proc.pc = "fallback"
    /\ proc' = [proc EXCEPT !.pc = IF outcome = "ok" THEN "queued" ELSE "failed",
                            !.loc.posts = @ + 1,
                            !.loc.queued = (outcome = "ok")]
    /\ UNCHANGED <<branchFile, jobsFile, now, call, run, stored, nextFresh, extras,
                   ticks, writer>>

\* Jenkins starts the build of this invocation and gives it the next number
StartQueued ==
    /\ proc.op = "build"
    /\ proc.loc.queued
    /\ proc.loc.last < MaxBuilds
    /\ proc' = [proc EXCEPT !.loc.queued = FALSE,
                            !.loc.mine = proc.loc.last + 1,
                            !.loc.last = proc.loc.last + 1]
    /\ UNCHANGED <<branchFile, jobsFile, now, call, run, stored, nextFresh, extras,
                   ticks, writer>>

\* Jenkins starts a build of the job that somebody else triggered
OtherBuild ==
    /\ proc.op = "build"
    /\ proc.pc \in {"post", "fallback", "queued", "done"}
    /\ proc.loc.last < MaxBuilds
    /\ proc' = [proc EXCEPT !.loc.last = @ + 1]
    /\ UNCHANGED <<branchFile, jobsFile, now, call, run, stored, nextFresh, extras,
                   ticks, writer>>

\* lines 973-987: sleep, then get_job_info; lastBuild.number + 1 when the job
\* has a last build, None when it has none or the request raises
ReadNumber(outcome) ==
    /\ proc.op = "build"
    /\ proc.pc = "queued"
    /\ proc' = [proc EXCEPT !.pc = "done",
                            !.loc.build_number =
                                IF outcome = "ok" /\ proc.loc.last # 0
                                THEN PyInt(proc.loc.last + 1)
                                ELSE PyNone]
    /\ UNCHANGED <<branchFile, jobsFile, now, call, run, stored, nextFresh, extras,
                   ticks, writer>>

NextBuild ==
    \/ \E outcome \in {"ok", "status", "raises"} : TriggerPost(outcome)
    \/ \E outcome \in {"ok", "raises"} : TriggerFallback(outcome)
    \/ StartQueued
    \/ OtherBuild
    \/ \E outcome \in {"ok", "raises"} : ReadNumber(outcome)

SpecBuild == InitBuild /\ [][NextBuild]_vars

(***************************************************************************)
(* The trigger and the build number: C22, C29.                             *)
(***************************************************************************)
\* C22 as stated: one build invocation sends at most one trigger request; a
\* trigger request that failed is reported and not followed by a second one.
C22_AsStated == proc.op = "build" => proc.loc.posts <= 1

\* C29 as stated: the build number that build reports and waits on is the
\* number of the build that this invocation's trigger created, whenever
\* Jenkins started builds of the job before the number was read.
C29_AsStated ==
    (/\ proc.op = "build"
     /\ proc.pc = "done"
     /\ proc.loc.mine # 0
     /\ proc.loc.build_number # PyNone) =>
        proc.loc.build_number = PyInt(proc.loc.mine)

(***************************************************************************)
(* Two j processes in add_branch_to_cache on the same branch cache file.   *)
(* Each process loads the record (line 149), opens the file for writing,   *)
(* which truncates it (line 138), and writes the text of its record from   *)
(* offset 0 when json.dump's output is flushed (line 139).  The frame      *)
(* holds for each process its position, its branch_name and its            *)
(* cached_branches, and of the file the length of its text (size) and the  *)
(* process that wrote last (last, 0 for none).                             *)
(***************************************************************************)
\* len(json.dumps({'branches': names})) for names of ASCII letters, digits,
\* '-' and '/'
DumpLen(names) ==
    LET chars[k \in 0..Len(names)] ==
            IF k = 0 THEN 0 ELSE chars[k - 1] + Len(names[k]) + 2
    IN 16 + chars[Len(names)] + (IF Len(names) = 0 THEN 0 ELSE 2 * (Len(names) - 1))

InitRace ==
    /\ branchFile \in HistoryFiles \cup {HistoryFile([i \in 1..BRANCH_LIMIT |-> NameOf(i)])}
    /\ \E a, b \in {Login, Develop, NameOf(1), NameOf(BRANCH_LIMIT + 1), DEV} :
          proc = Frame("add_branch_to_cache", PyNone, "run",
                       [p |-> <<[pc |-> "load", branch_name |-> a, cached_branches |-> PyNone],
                                [pc |-> "load", branch_name |-> b, cached_branches |-> PyNone]>>,
                        size |-> IF branchFile = Absent THEN 0
                                 ELSE DumpLen(HistoryNames(branchFile)),
                        last |-> 0],
                       PyNone)
    /\ jobsFile = Absent
    /\ now = 0
    /\ call = NoCall
    /\ run = BrokenRun
    /\ stored = NothingStored
    /\ nextFresh = MaxFresh + 1
    /\ extras = 0
    /\ ticks = 0
    /\ writer = NoWriter

\* lines 146-158 of process i: the dev test, load_branch_cache, remove, insert
\* and the cut to 50 entries
RaceLoad(i) ==
    LET l == load_branch_cache(branchFile) IN
    /\ proc.op = "add_branch_to_cache"
    /\ proc.pc = "run"
    /\ proc.loc.p[i].pc = "load"
    /\ proc' = IF IsDev(proc.loc.p[i].branch_name)
               THEN [proc EXCEPT !.loc.p[i].pc = "done"]
               ELSE [proc EXCEPT !.loc.p[i].pc = "open",
                                 !.loc.p[i].cached_branches =
                                     PyList(MoveToFront(l.ret.v,
                                                        PyStr(proc.loc.p[i].branch_name)))]
    /\ UNCHANGED <<branchFile, jobsFile, now, call, run, stored, nextFresh, extras,
                   ticks, writer>>

\* line 138 of process i: open(BRANCH_CACHE_FILE, 'w') truncates the file
RaceOpen(i) ==
    /\ proc.op = "add_branch_to_cache"
    /\ proc.pc = "run"
    /\ proc.loc.p[i].pc = "open"
    /\ branchFile' = Empty
    /\ proc' = [proc EXCEPT !.loc.p[i].pc = "dump", !.loc.size = 0]
    /\ UNCHANGED <<jobsFile, now, call, run, stored, nextFresh, extras, ticks, writer>>

\* line 139 of process i and the close: the text of the record is written
\* from offset 0 of the file; text that the other process wrote beyond its
\* end stays behind it
RaceDump(i) ==
    LET data == PyDict([branches |-> proc.loc.p[i].cached_branches])
        length == DumpLen(PyNames(proc.loc.p[i].cached_branches))
    IN
    /\ proc.op = "add_branch_to_cache"
    /\ proc.pc = "run"
    /\ proc.loc.p[i].pc = "dump"
    /\ branchFile' = IF proc.loc.size <= length THEN JsonFile(JsonEncode(data)) ELSE Garbage
    /\ proc' = [proc EXCEPT !.loc.p[i].pc = "done",
                            !.loc.size = IF @ <= length THEN length ELSE @,
                            !.loc.last = i]
    /\ UNCHANGED <<jobsFile, now, call, run, stored, nextFresh, extras, ticks, writer>>

NextRace ==
    \/ \E i \in 1..2 : RaceLoad(i)
    \/ \E i \in 1..2 : RaceOpen(i)
    \/ \E i \in 1..2 : RaceDump(i)

SpecRace == InitRace /\ [][NextRace]_vars

(***************************************************************************)
(* Concurrent touches: C23.                                                *)
(***************************************************************************)
\* both processes have returned and one of them has written
RaceOver ==
    /\ proc.op = "add_branch_to_cache"
    /\ proc.pc = "run"
    /\ \A i \in 1..2 : proc.loc.p[i].pc = "done"
    /\ proc.loc.last # 0

\* C23 as stated: after two concurrent touches, under every interleaving of
\* their steps, the persisted history is the one computed by the process that
\* wrote last, and it has at most 50 entries, no name twice and no "dev".
C23_AsStated ==
    RaceOver =>
        /\ History = PyNames(proc.loc.p[proc.loc.last].cached_branches)
        /\ Len(History) <= BRANCH_LIMIT
        /\ \A i, j \in 1..Len(History) : i # j => History[i] # History[j]
        /\ \A i \in 1..Len(History) : ~IsDev(History[i])

====
